---- MODULE Spec2Model ----
(***************************************************************************)
(* A model of the PSID panel tooling: the transform DSL of psid_tool.py    *)
(* (parse_transform_string, TransformSpec.merge, canonical_metadata), the  *)
(* extraction orchestrator (process_year, run_extract) and the canonical   *)
(* grid builder of make_canonical_grid.py (label_to_concept, score_row,    *)
(* the tie-break of main).                                                 *)
(*                                                                         *)
(* Python values are encoded as follows.  None is the string "None".  The  *)
(* params of a TransformOperation are carried as the sequence of the       *)
(* repr() strings of their parts, which is the identity                    *)
(* TransformSpec.merge compares.  A float is carried in hundredths where   *)
(* its magnitude is compared.                                              *)
(***************************************************************************)
EXTENDS Integers, Sequences, FiniteSets, TLC

VARIABLES
    dslFailFast,   \* fail_fast of canonical_metadata / parse_transform_string
    dslCell,       \* the transform cell of the mapping row being handled, split at ';'
    dslParsed,     \* parsed: the TransformSpec parse_transform_string returned last
    dslWarn,       \* the warnings logger.warning received while handling that row
    dslSpec,       \* transforms: the canonical's accumulated TransformSpec
    dslIdx,        \* number of mapping rows of the canonical handled so far
    dslRaised,     \* "none", or the exception that left canonical_metadata
    dslOp,         \* the operation that produced this state
    dslFirst       \* history: the first strategy keyword declared by the rows so far

dslVars == <<dslFailFast, dslCell, dslParsed, dslWarn, dslSpec, dslIdx, dslRaised,
             dslOp, dslFirst>>

VARIABLES
    gridPrefer,      \* args.prefer: the preferred module
    gridHasCategory, \* whether the mapping file has a category column
    gridRows,        \* df: the mapping rows, in file order
    gridPicked,      \* picked: the row selected for every (concept, year) group
    gridFirst,       \* history: the winners of the first run of main on these rows
    gridOp,          \* the operation that produced this state
    lblLabel,        \* the label handed to label_to_concept
    lblConcept       \* the concept label_to_concept returned for it

gridVars == <<gridPrefer, gridHasCategory, gridRows, gridPicked, gridFirst, gridOp,
              lblLabel, lblConcept>>

VARIABLES
    exOptions,   \* options: the ExtractionOptions of the run
    exParallel,  \* parallel
    exIndexCols, \* index_cols, <<>> when none is asked for
    exTasks,     \* tasks: the YearTask list, in the order of files_by_year
    exState,     \* per task: "pending", "running" or "done"
    exResults,   \* per task: the YearResult process_year returned
    exArrived,   \* the tasks in the order their results came back
    exPanel,     \* the panel written to panel_required_only.csv
    exAudit,     \* the rows written to panel_extract_log.csv
    exError,     \* the exception that left run_extract, kind "none" when none did
    exOp         \* the operation that produced this state

exVars == <<exOptions, exParallel, exIndexCols, exTasks, exState, exResults, exArrived, exPanel, exAudit,
            exError, exOp>>

VARIABLES
    yrTask,      \* task: the YearTask handed to process_year on its own
    yrResult,    \* the YearResult it returned, or the exception it raised
    yrLoop,      \* history: the state process_year left its loop over the files in
    yrOp         \* the operation that produced this state

yrVars == <<yrTask, yrResult, yrLoop, yrOp>>

vars == <<dslVars, gridVars, exVars, yrVars>>

None == "None"

(***************************************************************************)
(*                         Transform DSL: parsing                          *)
(***************************************************************************)

\* Bounds of the DSL state space.
MaxTokens == 2       \* tokens per cell handed to parse_transform_string alone
MaxRowTokens == 2    \* tokens per cell of a mapping row of canonical_metadata
MaxRows == 2         \* mapping rows contributing to the canonical

StrategyKeywords == {"first_non_na", "sum_non_na", "max_non_na"}

\* The token texts the model draws cells from.
RowTokens == {"first_non_na", "sum_non_na", "to_int", "clip:[0,100]"}

ParseTokens == RowTokens \cup
    {"SUM_NON_NA", "strip", "na_codes:[9999]", "clip:[0.0,100]", "clip:[a,5]",
     "winsor:[0.1]", "winsor:[0.5]", "winsor:[x]", "log", "@@"}

\* str.lower() on the token texts.
Lower(s) ==
    CASE s = "SUM_NON_NA" -> "sum_non_na"
      [] OTHER -> s

\* float(s): ok is FALSE where Python raises ValueError; num is the value in
\* hundredths, repr is repr() of the float.
PyFloat(s) ==
    CASE s = "0"   -> [ok |-> TRUE, num |-> 0, repr |-> "0.0"]
      [] s = "0.0" -> [ok |-> TRUE, num |-> 0, repr |-> "0.0"]
      [] s = "5"   -> [ok |-> TRUE, num |-> 500, repr |-> "5.0"]
      [] s = "100" -> [ok |-> TRUE, num |-> 10000, repr |-> "100.0"]
      [] s = "0.1" -> [ok |-> TRUE, num |-> 10, repr |-> "0.1"]
      [] s = "0.5" -> [ok |-> TRUE, num |-> 50, repr |-> "0.5"]
      [] OTHER     -> [ok |-> FALSE, num |-> 0, repr |-> "ValueError"]

\* NA_CODES_RE.match(token): the cleaned list, as its repr.
NA_CODES_RE(token) ==
    CASE token = "na_codes:[9999]" -> [match |-> TRUE, cleaned |-> "[9999]"]
      [] OTHER -> [match |-> FALSE, cleaned |-> ""]

\* CLIP_RE.match(token) and its groups min and max, stripped.
CLIP_RE(token) ==
    CASE token = "clip:[0,100]"   -> [match |-> TRUE, min |-> "0", max |-> "100"]
      [] token = "clip:[0.0,100]" -> [match |-> TRUE, min |-> "0.0", max |-> "100"]
      [] token = "clip:[a,5]"     -> [match |-> TRUE, min |-> "a", max |-> "5"]
      [] OTHER -> [match |-> FALSE, min |-> "", max |-> ""]

\* WINSOR_RE.match(token) and its group p, stripped.
WINSOR_RE(token) ==
    CASE token = "winsor:[0.1]" -> [match |-> TRUE, p |-> "0.1"]
      [] token = "winsor:[0.5]" -> [match |-> TRUE, p |-> "0.5"]
      [] token = "winsor:[x]"   -> [match |-> TRUE, p |-> "x"]
      [] OTHER -> [match |-> FALSE, p |-> ""]

\* TRANSFORM_TOKEN_RE.match(token): a word, optionally followed by ':' and text.
TRANSFORM_TOKEN_RE(token) == token # "@@"

TransformOperation(name, params) == [name |-> name, params |-> params]

TransformSpec == [operations |-> <<>>, duplicate_strategy |-> None]

\* The running state of one parse_transform_string call.
ParseStart == [spec |-> TransformSpec, warnings |-> <<>>, raised |-> "none"]

AppendOp(st, op) ==
    [st EXCEPT !.spec.operations = Append(@, op)]

\* A malformed token: raise in strict mode, logger.warning(msg) and go on otherwise.
Reject(st, kind, fail_fast) ==
    IF fail_fast THEN [st EXCEPT !.raised = "ValueError"]
    ELSE [st EXCEPT !.warnings = Append(@, kind)]

\* clip whose bounds both convert: the operation is appended.
ClipOp(m) ==
    LET lo == IF m.min = "" THEN None ELSE PyFloat(m.min).repr
        hi == IF m.max = "" THEN None ELSE PyFloat(m.max).repr
    IN TransformOperation("clip", <<lo, hi>>)

\* One round of the token loop of parse_transform_string.
ParseToken(st, raw, fail_fast) ==
    LET token == raw
        lower == Lower(token)
        na    == NA_CODES_RE(token)
        clip  == CLIP_RE(token)
        win   == WINSOR_RE(token)
    IN
    IF raw = "" THEN st
    ELSE IF lower \in StrategyKeywords THEN
        IF st.spec.duplicate_strategy # None /\ st.spec.duplicate_strategy # lower
        THEN Reject(st, "conflict", fail_fast)
        ELSE [st EXCEPT !.spec.duplicate_strategy = lower]
    ELSE IF lower \in {"to_int", "to_float", "strip", "lower", "upper", "na_blank_to_nan"}
        THEN AppendOp(st, TransformOperation(lower, <<None>>))
    ELSE IF na.match THEN AppendOp(st, TransformOperation("na_codes", <<na.cleaned>>))
    ELSE IF clip.match THEN
        \* float(min_str) and float(max_str) are not guarded: ValueError leaves the
        \* function whatever fail_fast is
        IF (clip.min # "" /\ ~PyFloat(clip.min).ok) \/ (clip.max # "" /\ ~PyFloat(clip.max).ok)
        THEN [st EXCEPT !.raised = "ValueError"]
        ELSE AppendOp(st, ClipOp(clip))
    ELSE IF win.match THEN
        IF ~PyFloat(win.p).ok THEN Reject(st, "winsor", fail_fast)
        ELSE IF ~(0 < PyFloat(win.p).num /\ PyFloat(win.p).num < 50)
             THEN Reject(st, "winsor", fail_fast)
        ELSE AppendOp(st, TransformOperation("winsor", <<PyFloat(win.p).repr>>))
    ELSE IF TRANSFORM_TOKEN_RE(token) THEN Reject(st, "unknown", fail_fast)
    ELSE Reject(st, "unparsable", fail_fast)

RECURSIVE ParseLoop(_, _, _, _)
ParseLoop(tokens, i, st, fail_fast) ==
    IF i > Len(tokens) \/ st.raised # "none" THEN st
    ELSE ParseLoop(tokens, i + 1, ParseToken(st, tokens[i], fail_fast), fail_fast)

\* not value or value.strip().lower() in {"nan", "none", ""}
IsBlankCell(value) ==
    \/ value = <<>>
    \/ Len(value) = 1 /\ Lower(value[1]) \in {"nan", "none", ""}

parse_transform_string(value, fail_fast) ==
    IF IsBlankCell(value) THEN ParseStart
    ELSE ParseLoop(value, 1, ParseStart, fail_fast)

(***************************************************************************)
(*                         Transform DSL: merging                          *)
(***************************************************************************)

OpKey(op) == <<op.name, op.params>>

KeysOf(ops) == {OpKey(ops[i]) : i \in 1..Len(ops)}

\* Mutant of MergeOps: every operation of other is appended, the membership
\* test on existing being left out.
MergeOpsAppendAll(mine, theirs, i) == mine \o theirs

\* for op in other.operations: append when its key is not in existing
RECURSIVE MergeOps(_, _, _)
MergeOps(mine, theirs, i) ==
    IF i > Len(theirs) THEN mine
    ELSE IF OpKey(theirs[i]) \in KeysOf(mine) THEN MergeOps(mine, theirs, i + 1)
    ELSE MergeOps(Append(mine, theirs[i]), theirs, i + 1)

\* Mutant of Merge: the strategy of other overwrites the one self holds.
MergeLastWins(self, other) ==
    [operations |-> MergeOps(self.operations, other.operations, 1),
     duplicate_strategy |->
         IF other.duplicate_strategy # None
         THEN other.duplicate_strategy
         ELSE self.duplicate_strategy]

\* TransformSpec.merge: self after self.merge(other).
Merge(self, other) ==
    IF /\ other.duplicate_strategy # None
       /\ self.duplicate_strategy # None
       /\ self.duplicate_strategy # other.duplicate_strategy
    THEN self
    ELSE [operations |-> MergeOps(self.operations, other.operations, 1),
          duplicate_strategy |->
              IF other.duplicate_strategy # None /\ self.duplicate_strategy = None
              THEN other.duplicate_strategy
              ELSE self.duplicate_strategy]

(***************************************************************************)
(*                    Transform DSL: the state machine                     *)
(***************************************************************************)

\* All cells of at most n tokens over the token set T.
CellsOver(T, n) == UNION {[1..k -> T] : k \in 0..n}

\* The first strategy keyword a cell declares, None when it declares none.
RECURSIVE FirstKeyword(_, _)
FirstKeyword(cell, i) ==
    IF i > Len(cell) THEN None
    ELSE IF Lower(cell[i]) \in StrategyKeywords THEN Lower(cell[i])
    ELSE FirstKeyword(cell, i + 1)

DslIdle ==
    /\ dslFailFast = FALSE
    /\ dslCell = <<>>
    /\ dslParsed = TransformSpec
    /\ dslWarn = <<>>
    /\ dslSpec = TransformSpec
    /\ dslIdx = 0
    /\ dslRaised = "none"
    /\ dslOp = "idle"
    /\ dslFirst = None

DslStart ==
    /\ dslFailFast \in BOOLEAN
    /\ dslCell = <<>>
    /\ dslParsed = TransformSpec
    /\ dslWarn = <<>>
    /\ dslSpec = TransformSpec
    /\ dslIdx = 0
    /\ dslRaised = "none"
    /\ dslOp = "init"
    /\ dslFirst = None

\* parse_transform_string applied to one cell on its own.
ParseCell ==
    /\ dslOp = "init"
    /\ \E cell \in CellsOver(ParseTokens, MaxTokens) :
         LET st == parse_transform_string(cell, dslFailFast) IN
         /\ dslCell' = cell
         /\ dslParsed' = IF st.raised = "none" THEN st.spec ELSE dslParsed
         /\ dslWarn' = st.warnings
         /\ dslRaised' = st.raised
    /\ dslOp' = "parse"
    /\ UNCHANGED <<dslFailFast, dslSpec, dslIdx, dslFirst>>
    /\ UNCHANGED <<gridVars, exVars, yrVars>>

\* One round of the loop of canonical_metadata over the canonical's rows:
\* parsed = parse_transform_string(raw, ...); transforms.merge(parsed).
MetaRow ==
    /\ dslOp \in {"init", "row"}
    /\ dslRaised = "none"
    /\ dslIdx < MaxRows
    /\ \E cell \in CellsOver(RowTokens, MaxRowTokens) :
         LET st == parse_transform_string(cell, dslFailFast) IN
         /\ dslCell' = cell
         /\ dslParsed' = IF st.raised = "none" THEN st.spec ELSE dslParsed
         /\ dslWarn' = st.warnings
         /\ dslRaised' = st.raised
         /\ dslSpec' = IF st.raised = "none" THEN Merge(dslSpec, st.spec) ELSE dslSpec
         /\ dslFirst' = IF dslFirst = None THEN FirstKeyword(cell, 1) ELSE dslFirst
    /\ dslIdx' = dslIdx + 1
    /\ dslOp' = "row"
    /\ UNCHANGED dslFailFast
    /\ UNCHANGED <<gridVars, exVars, yrVars>>

\* spec.merge(spec), on the spec parsed last and on the accumulated one.
MergeSelf ==
    /\ dslOp \in {"parse", "row"}
    /\ dslRaised = "none"
    /\ dslParsed' = Merge(dslParsed, dslParsed)
    /\ dslSpec' = Merge(dslSpec, dslSpec)
    /\ dslOp' = "self"
    /\ UNCHANGED <<dslFailFast, dslCell, dslWarn, dslIdx, dslRaised, dslFirst>>
    /\ UNCHANGED <<gridVars, exVars, yrVars>>

DslNext == ParseCell \/ MetaRow \/ MergeSelf

GridIdle ==
    /\ gridPrefer = "WLTH"
    /\ gridHasCategory = FALSE
    /\ gridRows = <<>>
    /\ gridPicked = <<>>
    /\ gridFirst = {}
    /\ gridOp = "idle"
    /\ lblLabel = <<>>
    /\ lblConcept = <<>>

NoFrame == [columns |-> <<>>, rows |-> <<>>]

NoError == [kind |-> "none", year |-> 0, file |-> ""]

NoPanel == [index |-> <<>>, columns |-> <<>>, rows |-> <<>>]

NoOptions == [fail_fast |-> FALSE, apply_transforms |-> FALSE, coerce_types |-> FALSE]

ExIdle ==
    /\ exOptions = NoOptions
    /\ exParallel = 1
    /\ exIndexCols = <<>>
    /\ exTasks = <<>>
    /\ exState = <<>>
    /\ exResults = <<>>
    /\ exArrived = <<>>
    /\ exPanel = NoPanel
    /\ exAudit = <<>>
    /\ exError = NoError
    /\ exOp = "idle"

YrIdle ==
    /\ yrTask = <<>>
    /\ yrResult = <<>>
    /\ yrLoop = <<>>
    /\ yrOp = "idle"

DslInit == DslStart /\ GridIdle /\ ExIdle /\ YrIdle

SpecDsl == DslInit /\ [][DslNext]_vars

(***************************************************************************)
(*                     Transform DSL: the properties                       *)
(***************************************************************************)

HasRepeatedOp(ops) ==
    \E i, j \in 1..Len(ops) : i < j /\ OpKey(ops[i]) = OpKey(ops[j])

\* C4: merging a TransformSpec into itself leaves its operation list with the
\* same length and the same contents, also when the list holds repeated
\* operations.
C4_SelfMergeKeepsOperations ==
    [][dslOp' = "self" =>
         /\ Len(dslParsed'.operations) = Len(dslParsed.operations)
         /\ dslParsed'.operations = dslParsed.operations
         /\ dslSpec'.operations = dslSpec.operations]_vars

C4_Witness ==
    /\ dslOp = "self"
    /\ HasRepeatedOp(dslParsed.operations)
    /\ Len(dslSpec.operations) >= 2

\* The operations of B that A.merge(B) is to add: those whose (name, params) is
\* neither in A nor earlier in B, in B's order.
RECURSIVE FreshOps(_, _, _)
FreshOps(A, B, i) ==
    IF i > Len(B) THEN <<>>
    ELSE IF \/ \E k \in 1..Len(A) : OpKey(A[k]) = OpKey(B[i])
            \/ \E k \in 1..(i - 1) : OpKey(B[k]) = OpKey(B[i])
         THEN FreshOps(A, B, i + 1)
         ELSE <<B[i]>> \o FreshOps(A, B, i + 1)

\* C5: after A.merge(B), whatever the duplicate strategies of A and B, the
\* operations of A are its original operations followed by every operation of
\* B not already present, in B's order.
C5_MergeUnionsOperations ==
    [][(dslOp' = "row" /\ dslRaised' = "none") =>
         dslSpec'.operations =
             dslSpec.operations \o FreshOps(dslSpec.operations, dslParsed'.operations, 1)]_vars

\* C6: once the canonical's duplicate_strategy holds a strategy it never
\* changes, and the strategy retained is the first one declared among the
\* canonical's contributing rows.
C6_FirstStrategyIsKept ==
    [][/\ dslSpec.duplicate_strategy # None =>
            dslSpec'.duplicate_strategy = dslSpec.duplicate_strategy
       /\ dslRaised' = "none" => dslSpec'.duplicate_strategy = dslFirst']_vars

C6_Witness ==
    /\ dslOp = "row"
    /\ dslIdx = 2
    /\ dslRaised = "none"
    /\ dslSpec.duplicate_strategy = "first_non_na"
    /\ FirstKeyword(dslCell, 1) = "sum_non_na"

\* A row's cell declares a strategy keyword that conflicts with the strategy
\* retained when the keyword is met: the canonical's, else the cell's first.
ConflictingKeyword(retained, cell) ==
    \E i \in 1..Len(cell) :
        /\ Lower(cell[i]) \in StrategyKeywords
        /\ LET kept == IF retained # None THEN retained ELSE FirstKeyword(cell, 1)
           IN Lower(cell[i]) # kept

\* C7: a later conflicting strategy keyword, in the same cell or in another
\* row's cell, is an error in strict mode and a warning, the keyword being
\* ignored, in permissive mode.
C7_ConflictIsReported ==
    [][(dslOp' = "row" /\ ConflictingKeyword(dslSpec.duplicate_strategy, dslCell')) =>
         IF dslFailFast
         THEN dslRaised' # "none"
         ELSE /\ \E i \in 1..Len(dslWarn') : dslWarn'[i] = "conflict"
              /\ dslSpec.duplicate_strategy # None =>
                     dslSpec'.duplicate_strategy = dslSpec.duplicate_strategy]_vars

\* The tokens that are neither a keyword nor a parameterised form.
Unrecognised(token) ==
    /\ token # ""
    /\ Lower(token) \notin StrategyKeywords
    /\ Lower(token) \notin {"to_int", "to_float", "strip", "lower", "upper", "na_blank_to_nan"}
    /\ ~NA_CODES_RE(token).match
    /\ ~CLIP_RE(token).match
    /\ ~WINSOR_RE(token).match

OperationNames ==
    {"to_int", "to_float", "strip", "lower", "upper", "na_blank_to_nan",
     "na_codes", "clip", "winsor"}

\* C8: an unrecognised token never adds an operation; in strict mode parsing
\* raises, in permissive mode the token is dropped with a warning and the
\* remaining tokens of the cell are still parsed.
C8_UnknownTokenRejected ==
    (dslOp = "parse" /\ \E i \in 1..Len(dslCell) : Unrecognised(dslCell[i])) =>
        /\ \A k \in 1..Len(dslParsed.operations) :
               dslParsed.operations[k].name \in OperationNames
        /\ dslFailFast => dslRaised # "none"
        /\ ~dslFailFast =>
               LET rest == parse_transform_string(
                               SelectSeq(dslCell, LAMBDA t : ~Unrecognised(t)), FALSE)
               IN /\ Len(SelectSeq(dslWarn, LAMBDA w : w \in {"unknown", "unparsable"}))
                         = Len(SelectSeq(dslCell, Unrecognised))
                  /\ dslRaised = rest.raised
                  /\ dslRaised = "none" => dslParsed = rest.spec

\* C9: in permissive mode every malformed token is dropped and parsing
\* completes without raising; parse_transform_string raises only in strict mode.
C9_PermissiveNeverRaises ==
    (dslOp = "parse" /\ ~dslFailFast) => dslRaised = "none"

(***************************************************************************)
(*              Canonical grid: labels and label_to_concept                *)
(*                                                                         *)
(* A label is the sequence of its chunks, the maximal runs without blanks, *)
(* which one blank separates; the chunk NL is a line break.  A concept is  *)
(* the sequence of its blank-separated tokens.                             *)
(***************************************************************************)

MaxWords == 3        \* chunks per label handed to label_to_concept alone

NL == "<newline>"

LabelChunks ==
    {"AGE", "OF", "HEAD", "REFERENCE", "PERSON", "SPOUSE", "STOCK", "VALUE",
     "HD", "1999", "127", "(W6)", NL}

\* str.lower() on a chunk.
LowerChunk(c) ==
    CASE c = "AGE" -> "age"
      [] c = "OF" -> "of"
      [] c = "HEAD" -> "head"
      [] c = "REFERENCE" -> "reference"
      [] c = "PERSON" -> "person"
      [] c = "SPOUSE" -> "spouse"
      [] c = "STOCK" -> "stock"
      [] c = "VALUE" -> "value"
      [] c = "HD" -> "hd"
      [] c = "(W6)" -> "(w6)"
      [] OTHER -> c

\* len() of a chunk or of a token.
StrLen(c) ==
    CASE c \in {""} -> 0
      [] c \in {NL} -> 1
      [] c \in {"OF", "of", "HD", "hd", "::"} -> 2
      [] c \in {"AGE", "age", "127", "ira"} -> 3
      [] c \in {"HEAD", "head", "1999", "(W6)", "(w6)", "acct"} -> 4
      [] c \in {"STOCK", "stock", "VALUE", "value"} -> 5
      [] c \in {"PERSON", "person", "SPOUSE", "spouse", "stocks", "assets",
                "Assets"} -> 6
      [] c \in {"age_head"} -> 8
      [] c \in {"REFERENCE", "reference"} -> 9
      [] c \in {"age_spouse"} -> 10
      [] c \in {"demographics", "Demographics"} -> 12
      [] OTHER -> 7

RECURSIVE SumLen(_, _)
SumLen(seq, i) == IF i > Len(seq) THEN 0 ELSE StrLen(seq[i]) + SumLen(seq, i + 1)

\* len() of the string whose blank-separated pieces are seq.
JoinedLen(seq) == IF seq = <<>> THEN 0 ELSE SumLen(seq, 1) + Len(seq) - 1

\* normalize_phrase on one chunk: the tokens left of it after lower(), the
\* wave, year, bracket and punctuation substitutions and the blank collapse.
NormalizeChunk(c) ==
    CASE c = "(W6)" -> <<>>
      [] c = "1999" -> <<>>
      [] c = NL -> <<>>
      [] OTHER -> <<LowerChunk(c)>>

RECURSIVE normalize_phrase(_, _)
normalize_phrase(label, i) ==
    IF i > Len(label) THEN <<>>
    ELSE NormalizeChunk(label[i]) \o normalize_phrase(label, i + 1)

STOP_TOKENS ==
    {"imp", "acc", "wtr", "whether", "ever", "any",
     "of", "the", "a", "an", "and", "or", "to", "in", "for", "by",
     "head", "hh", "household"}

\* Mutant of DIGIT_TOK_RE: no token matches.
DIGIT_TOK_RE_never(t) == FALSE

\* DIGIT_TOK_RE.fullmatch(t)
DIGIT_TOK_RE(t) == t \in {"127", "1999"}

\* SYNONYMS, in dictionary order; a key is the sequence of its tokens.
SYNONYMS ==
    << <<<<"annuity/ira">>, "ira">>, <<<<"iras">>, "ira">>,
       <<<<"stock", "market">>, "stocks">>, <<<<"stock">>, "stocks">>,
       <<<<"wealth", "without", "equity">>, "wealth_wo_equity">>,
       <<<<"wealth", "w/o", "equity">>, "wealth_wo_equity">>,
       <<<<"home", "equity">>, "home_equity">>,
       <<<<"other", "asset">>, "other_assets">>,
       <<<<"other", "assets">>, "other_assets">>,
       <<<<"vehicle">>, "vehicles">>, <<<<"vehicles">>, "vehicles">>,
       <<<<"balance">>, "value">>, <<<<"account">>, "acct">>,
       <<<<"accounts">>, "acct">>, <<<<"mortgages">>, "mortgage">> >>

\* re.sub of the phrase key by val, left to right, on a token sequence.
RECURSIVE SubPhrase(_, _, _, _)
SubPhrase(tokens, key, val, i) ==
    IF i > Len(tokens) THEN <<>>
    ELSE IF /\ i + Len(key) - 1 <= Len(tokens)
            /\ SubSeq(tokens, i, i + Len(key) - 1) = key
         THEN <<val>> \o SubPhrase(tokens, key, val, i + Len(key))
         ELSE <<tokens[i]>> \o SubPhrase(tokens, key, val, i + 1)

RECURSIVE apply_synonyms(_, _)
apply_synonyms(tokens, k) ==
    IF k > Len(SYNONYMS) THEN tokens
    ELSE apply_synonyms(SubPhrase(tokens, SYNONYMS[k][1], SYNONYMS[k][2], 1), k + 1)

\* The alternatives of AGE_PATTERNS and AGE_SPOUSE_PATTERNS: single words,
\* and pairs of words that one blank separates.
HeadWords == {"head", "respondent", "hd"}
HeadPairFirst == {"reference", "ref"}
HeadWordsOf == {"head", "respondent"}
HeadPairFirstOf == {"reference", "ref"}
SpouseWords == {"spouse", "wife", "husband", "partner"}

\* The last chunk of an alternative that starts at chunk j of low, 0 when none does.
TermEnd(low, j, words, pairFirst) ==
    IF j < 1 \/ j > Len(low) THEN 0
    ELSE IF low[j] \in words THEN j
    ELSE IF low[j] \in pairFirst /\ j + 1 <= Len(low) /\ low[j + 1] = "person" THEN j + 1
    ELSE 0

\* '.*' spans the chunks i..j: no line break among them.
OneLine(low, i, j) == \A k \in i..j : low[k] # NL

\* r"\bage\b.*\b(words|pairs)\b"
AgeThenTerm(low, words, pairFirst) ==
    \E i, j \in 1..Len(low) :
        /\ low[i] = "age"
        /\ i < j
        /\ TermEnd(low, j, words, pairFirst) # 0
        /\ OneLine(low, i, j)

\* r"\b(words|pairs)\b.*\bage\b"
TermThenAge(low, words, pairFirst) ==
    \E i, j \in 1..Len(low) :
        /\ TermEnd(low, j, words, pairFirst) # 0
        /\ TermEnd(low, j, words, pairFirst) < i
        /\ low[i] = "age"
        /\ OneLine(low, j, i)

\* r"\bage of (words|pairs)\b"
AgeOfTerm(low, words, pairFirst) ==
    \E i \in 1..Len(low) :
        /\ low[i] = "age"
        /\ i + 1 <= Len(low)
        /\ low[i + 1] = "of"
        /\ TermEnd(low, i + 2, words, pairFirst) # 0

LowerLabel(label) == [i \in 1..Len(label) |-> LowerChunk(label[i])]

\* is_match_any(raw_low, AGE_PATTERNS)
MatchesAgeHead(label) ==
    LET low == LowerLabel(label) IN
    \/ AgeThenTerm(low, HeadWords, HeadPairFirst)
    \/ TermThenAge(low, HeadWords, HeadPairFirst)
    \/ AgeOfTerm(low, HeadWordsOf, HeadPairFirstOf)

\* is_match_any(raw_low, AGE_SPOUSE_PATTERNS)
MatchesAgeSpouse(label) ==
    LET low == LowerLabel(label) IN
    \/ AgeThenTerm(low, SpouseWords, {})
    \/ TermThenAge(low, SpouseWords, {})
    \/ AgeOfTerm(low, SpouseWords, {})

AgeHeadConcept == <<"demographics", "::", "age_head">>
AgeSpouseConcept == <<"demographics", "::", "age_spouse">>

\* not label.strip()
IsBlankLabel(label) == \A i \in 1..Len(label) : label[i] = NL

\* Mutant of label_to_concept: the spouse patterns are tried first.
label_to_concept_spouse_first(label) ==
    IF IsBlankLabel(label) THEN <<>>
    ELSE IF MatchesAgeSpouse(label) THEN AgeSpouseConcept
    ELSE IF MatchesAgeHead(label) THEN AgeHeadConcept
    ELSE <<>>

label_to_concept(label) ==
    IF IsBlankLabel(label) THEN <<>>
    ELSE
    LET s      == normalize_phrase(label, 1)
        tokens == SelectSeq(s, LAMBDA t : t \notin STOP_TOKENS /\ ~DIGIT_TOK_RE(t))
        s2     == SubPhrase(apply_synonyms(tokens, 1), <<"value", "of">>, "value", 1)
    IN IF MatchesAgeHead(label) THEN AgeHeadConcept
       ELSE IF MatchesAgeSpouse(label) THEN AgeSpouseConcept
       ELSE s2

LabelsUpTo(n) == UNION {[1..k -> LabelChunks] : k \in 0..n}

\* label_to_concept applied to one label on its own.
DeriveConcept ==
    /\ gridOp = "init"
    /\ \E label \in LabelsUpTo(MaxWords) :
         /\ lblLabel' = label
         /\ lblConcept' = label_to_concept(label)
    /\ gridOp' = "label"
    /\ UNCHANGED <<gridPrefer, gridHasCategory, gridRows, gridPicked, gridFirst>>
    /\ UNCHANGED <<dslVars, exVars, yrVars>>

(***************************************************************************)
(*            Canonical grid: score_row and the tie-break of main          *)
(***************************************************************************)

MaxGridRows == 2     \* rows of the mapping file read by main

VarCodes == {"V1", "V2", "V3A"}
FileTypes == {"FAM", "WLTH"}
Categories == {"Demographics", "Assets"}
Years == {"1999", "2001"}
GridLabels == {<<"AGE", "OF", "HEAD">>, <<"VALUE", "OF", "STOCK">>, <<"VALUE", "STOCK">>}

\* The rows a mapping file is made of: every Demographics row of 1999, the
\* age rows of 2001, and the FAM age rows of 1999 filed under Assets.
MappingRows ==
    {r \in [var_code : VarCodes, label : GridLabels, file_type : FileTypes,
            category : Categories, year : Years] :
        \/ r.category = "Demographics"
           /\ (r.year = "1999" \/ r.label = <<"AGE", "OF", "HEAD">>)
        \/ /\ r.category = "Assets" /\ r.year = "1999" /\ r.file_type = "FAM"
           /\ r.label = <<"AGE", "OF", "HEAD">>}

\* The place of a string in the order Python's < gives the strings compared.
StrRank(x) ==
    CASE x = "" -> 0
      [] x = "1999" -> 1
      [] x = "2001" -> 2
      [] x = "::" -> 3
      [] x = "FAM" -> 4
      [] x = "V1" -> 5
      [] x = "V2" -> 6
      [] x = "V3A" -> 7
      [] x = "WLTH" -> 8
      [] x = "age" -> 9
      [] x = "age_head" -> 10
      [] x = "age_spouse" -> 11
      [] x = "assets" -> 12
      [] x = "demographics" -> 13
      [] x = "person" -> 14
      [] x = "reference" -> 15
      [] x = "spouse" -> 16
      [] x = "stocks" -> 17
      [] x = "value" -> 18
      [] OTHER -> 19

\* a < b for two strings given by their blank-separated pieces.
RECURSIVE PhraseLess(_, _, _)
PhraseLess(a, b, i) ==
    IF i > Len(b) THEN FALSE
    ELSE IF i > Len(a) THEN TRUE
    ELSE IF StrRank(a[i]) # StrRank(b[i]) THEN StrRank(a[i]) < StrRank(b[i])
    ELSE PhraseLess(a, b, i + 1)

\* category.lower().strip()
LowerCategory(c) ==
    CASE c = "Demographics" -> "demographics"
      [] c = "Assets" -> "assets"
      [] OTHER -> c

\* "acc", "imp", "value", "whether" or "wtr" in the lowered label.
LabelContains(label, sub) ==
    \E i \in 1..Len(label) :
        <<LowerChunk(label[i]), sub>> \in {<<"value", "value">>}

MANUAL_MERGES(concept) ==
    IF concept = <<"retirement/ira", "::", "value", "vehicles">>
    THEN <<"fam/unknown", "::", "value", "vehicles">>
    ELSE concept

\* df["label"].apply(label_to_concept), label by label.
concept_base == [label \in GridLabels |-> label_to_concept(label)]

\* df["label"].str.len(), label by label.
label_len == [label \in GridLabels |-> JoinedLen(label)]

\* len(concept_base), concept by concept.
concept_len == [label \in GridLabels |-> JoinedLen(concept_base[label])]

\* The rows main keeps, with the concept column: concept_base, the leftovers
\* filter, the category anchor and the manual merges.
WithConcept(rows, hasCategory) ==
    LET base(r) == concept_base[r.label]
        kept == SelectSeq(rows, LAMBDA r : concept_len[r.label] >= 3)
    IN [i \in 1..Len(kept) |->
           [row |-> kept[i],
            concept |-> MANUAL_MERGES(
                IF hasCategory
                THEN <<LowerCategory(kept[i].category), "::">> \o base(kept[i])
                ELSE base(kept[i]))]]

\* df["var_code"].value_counts()
CodeFreq(df, var) == Cardinality({i \in 1..Len(df) : df[i].row.var_code = var})

Min(a, b) == IF a < b THEN a ELSE b

\* concept.startswith("demographics :: age_")
IsAgeConcept(concept) ==
    /\ Len(concept) >= 3
    /\ concept[1] = "demographics"
    /\ concept[2] = "::"
    /\ concept[3] \in {"age_head", "age_spouse"}

\* var.endswith("A")
EndsWithA(var) == var \in {"V3A"}

score_row(r, concept, prefer_module, df) ==
    LET label == r.label
        var   == r.var_code
        mod   == r.file_type
    IN (IF LabelContains(label, "acc") THEN 3 ELSE 0)
       - (IF LabelContains(label, "imp") THEN 3 ELSE 0)
       + (IF EndsWithA(var) THEN 2 ELSE 0)
       + (IF LabelContains(label, "value") THEN 1 ELSE 0)
       - (IF LabelContains(label, "whether") \/ LabelContains(label, "wtr") THEN 1 ELSE 0)
       + (IF IsAgeConcept(concept)
          THEN (IF mod = "FAM" THEN 5 ELSE 0)
          ELSE (IF prefer_module \in {"WLTH", "FAM"} /\ mod = prefer_module THEN 1 ELSE 0))
       + Min(label_len[label] \div 40, 2)
       + Min(CodeFreq(df, var), 2)

\* The frame main sorts: the kept rows with concept, score and label_len.
Scored(rows, hasCategory, prefer) ==
    LET df == WithConcept(rows, hasCategory) IN
    [i \in 1..Len(df) |->
        [row |-> df[i].row,
         concept |-> df[i].concept,
         score |-> score_row(df[i].row, df[i].concept, prefer, df),
         label_len |-> label_len[df[i].row.label]]]

\* Mutant of RowBefore: var_code is left out of the sort keys.
RowBeforeNoVarCode(a, b) ==
    IF a.concept # b.concept THEN PhraseLess(a.concept, b.concept, 1)
    ELSE IF a.row.year # b.row.year THEN StrRank(a.row.year) < StrRank(b.row.year)
    ELSE IF a.score # b.score THEN a.score > b.score
    ELSE IF a.row.file_type # b.row.file_type
         THEN StrRank(a.row.file_type) < StrRank(b.row.file_type)
    ELSE IF a.label_len # b.label_len THEN a.label_len > b.label_len
    ELSE FALSE

\* Mutant of RowBefore: label_len sorts ascending.
RowBeforeShortLabel(a, b) ==
    IF a.concept # b.concept THEN PhraseLess(a.concept, b.concept, 1)
    ELSE IF a.row.year # b.row.year THEN StrRank(a.row.year) < StrRank(b.row.year)
    ELSE IF a.score # b.score THEN a.score > b.score
    ELSE IF a.row.file_type # b.row.file_type
         THEN StrRank(a.row.file_type) < StrRank(b.row.file_type)
    ELSE IF a.label_len # b.label_len THEN a.label_len < b.label_len
    ELSE StrRank(a.row.var_code) < StrRank(b.row.var_code)

\* a sorts strictly before b under by = [concept, year, score, file_type,
\* label_len, var_code], ascending = [True, True, False, True, False, True].
RowBefore(a, b) ==
    IF a.concept # b.concept THEN PhraseLess(a.concept, b.concept, 1)
    ELSE IF a.row.year # b.row.year THEN StrRank(a.row.year) < StrRank(b.row.year)
    ELSE IF a.score # b.score THEN a.score > b.score
    ELSE IF a.row.file_type # b.row.file_type
         THEN StrRank(a.row.file_type) < StrRank(b.row.file_type)
    ELSE IF a.label_len # b.label_len THEN a.label_len > b.label_len
    ELSE StrRank(a.row.var_code) < StrRank(b.row.var_code)

\* x put into the sorted sequence, after the elements it does not sort before.
RECURSIVE InsertSorted(_, _)
InsertSorted(sorted, x) ==
    IF sorted = <<>> THEN <<x>>
    ELSE IF RowBefore(x, sorted[Len(sorted)])
         THEN Append(InsertSorted(SubSeq(sorted, 1, Len(sorted) - 1), x), sorted[Len(sorted)])
         ELSE Append(sorted, x)

\* df.sort_values(by, ascending) on several keys: a stable sort.
RECURSIVE sort_values(_, _)
sort_values(df, n) ==
    IF n = 0 THEN <<>> ELSE InsertSorted(sort_values(df, n - 1), df[n])

\* groupby(["concept", "year"]).head(1): the first row of every group.
GroupHead(df) ==
    SelectSeq([i \in 1..Len(df) |->
                  [r |-> df[i],
                   first |-> \A k \in 1..(i - 1) :
                                ~(df[k].concept = df[i].concept
                                  /\ df[k].row.year = df[i].row.year)]],
              LAMBDA e : e.first)

\* picked of main.
Picked(rows, hasCategory, prefer) ==
    LET df == Scored(rows, hasCategory, prefer)
        heads == GroupHead(sort_values(df, Len(df)))
    IN [i \in 1..Len(heads) |-> heads[i].r]

\* The winning var_code of every (concept, year) group.
Winners(picked) ==
    {<<picked[i].concept, picked[i].row.year, picked[i].row.var_code>> :
        i \in 1..Len(picked)}

GridStart ==
    /\ gridPrefer = "WLTH"
    /\ gridHasCategory = FALSE
    /\ gridRows = <<>>
    /\ gridPicked = <<>>
    /\ gridFirst = {}
    /\ gridOp = "init"
    /\ lblLabel = <<>>
    /\ lblConcept = <<>>

\* main: the mapping file is read and the winners are picked.
RunMain ==
    /\ gridOp = "init"
    /\ \E prefer \in {"WLTH", "FAM"}, hasCategory \in BOOLEAN,
          rows \in UNION {[1..n -> MappingRows] : n \in 1..MaxGridRows} :
         LET picked == Picked(rows, hasCategory, prefer) IN
         /\ gridPrefer' = prefer
         /\ gridHasCategory' = hasCategory
         /\ gridRows' = rows
         /\ gridPicked' = picked
         /\ gridFirst' = Winners(picked)
    /\ gridOp' = "main"
    /\ UNCHANGED <<lblLabel, lblConcept>>
    /\ UNCHANGED <<dslVars, exVars, yrVars>>

\* main again on the same mapping rows in another order.
RunMainShuffled ==
    /\ gridOp \in {"main", "shuffled"}
    /\ \E i \in 1..(Len(gridRows) - 1) :
         LET rows == [gridRows EXCEPT ![i] = gridRows[i + 1], ![i + 1] = gridRows[i]] IN
         /\ gridRows' = rows
         /\ gridPicked' = Picked(rows, gridHasCategory, gridPrefer)
    /\ gridOp' = "shuffled"
    /\ UNCHANGED <<gridPrefer, gridHasCategory, gridFirst, lblLabel, lblConcept>>
    /\ UNCHANGED <<dslVars, exVars, yrVars>>

(***************************************************************************)
(*                 Canonical grid: label_to_concept properties             *)
(***************************************************************************)

\* The chunks i..j (in either order) hold no line break.
SameLine(low, i, j) ==
    \A k \in 1..Len(low) : ((i <= k /\ k <= j) \/ (j <= k /\ k <= i)) => low[k] # NL

\* A chunk of low is one of words, or starts "<first> person" (one blank).
TermAt(low, j, words, firsts) ==
    \/ low[j] \in words
    \/ (low[j] \in firsts /\ j < Len(low) /\ low[j + 1] = "person")

\* 'age' occurs in the label together with one of the terms.
AgeWith(low, words, firsts) ==
    \E i, j \in 1..Len(low) : low[i] = "age" /\ TermAt(low, j, words, firsts)

\* 'age' and one of the terms occur on one line of the label.
AgeOnLineWith(low, words, firsts) ==
    \E i, j \in 1..Len(low) :
        low[i] = "age" /\ TermAt(low, j, words, firsts) /\ SameLine(low, i, j)

\* C10, as stated: every label with 'age' and head / reference person /
\* respondent resolves to age_head, every label with 'age' and spouse / wife /
\* husband / partner resolves to age_spouse, and no label resolves to both.
C10_AgeRulesAsStated ==
    gridOp = "label" =>
        LET low == LowerLabel(lblLabel) IN
        /\ AgeWith(low, {"head", "respondent"}, {"reference"})
              => lblConcept = AgeHeadConcept
        /\ AgeWith(low, {"spouse", "wife", "husband", "partner"}, {})
              => lblConcept = AgeSpouseConcept
        /\ ~(lblConcept = AgeHeadConcept /\ lblConcept = AgeSpouseConcept)

\* C10, amended: a label with 'age' and head / reference person / respondent
\* on one line resolves to age_head; a label with 'age' and spouse / wife /
\* husband / partner on one line resolves to age_spouse unless 'age' is also
\* on one line with head / reference person / ref person / respondent / hd,
\* and then it resolves to age_head; no label of the first kind resolves to
\* age_spouse.
C10_AgeRules ==
    gridOp = "label" =>
        LET low == LowerLabel(lblLabel)
            head == AgeOnLineWith(low, {"head", "respondent"}, {"reference"})
            anyHead == AgeOnLineWith(low, {"head", "respondent", "hd"}, {"reference", "ref"})
            spouse == AgeOnLineWith(low, {"spouse", "wife", "husband", "partner"}, {})
        IN /\ head => lblConcept = AgeHeadConcept
           /\ (spouse /\ ~anyHead) => lblConcept = AgeSpouseConcept
           /\ (spouse /\ anyHead) => lblConcept = AgeHeadConcept
           /\ lblConcept = AgeSpouseConcept => ~head

\* "REFERENCE PERSON AGE" has been resolved to age_head.
C10_Witness ==
    /\ gridOp = "label"
    /\ lblLabel = <<"REFERENCE", "PERSON", "AGE">>
    /\ lblConcept = AgeHeadConcept

\* A token made only of digits.
OnlyDigits(t) == t \in {"1999", "127"}

\* C11: for every label, the concept label_to_concept derives from it holds,
\* split on whitespace, no token made only of digits and no stopword.
C11_NoDigitOrStopToken ==
    gridOp = "label" =>
        \A k \in 1..Len(lblConcept) :
            ~OnlyDigits(lblConcept[k]) /\ lblConcept[k] \notin STOP_TOKENS

\* "VALUE OF 127" has been reduced to "value".
C11_Witness ==
    /\ gridOp = "label"
    /\ lblLabel = <<"VALUE", "OF", "127">>
    /\ lblConcept = <<"value">>

GridNext == RunMain \/ RunMainShuffled

GridInit == GridStart /\ DslIdle /\ ExIdle /\ YrIdle

SpecGrid == GridInit /\ [][GridNext]_vars

LabelNext == DeriveConcept

SpecLabel == GridInit /\ [][LabelNext]_vars

(***************************************************************************)
(*                      Canonical grid: the properties                     *)
(***************************************************************************)

\* C3: the tie-break is order-independent: for every permutation of the
\* mapping rows the winning var_code of every (concept, year) group is the same.
C3_TieBreakOrderIndependent ==
    gridOp \in {"main", "shuffled"} => Winners(gridPicked) = gridFirst

\* Two rows of one group that tie on score, module and label length, met in
\* the order opposite to the one of the first run.
C3_Witness ==
    /\ gridOp = "shuffled"
    /\ Len(gridRows) = 2
    /\ Len(gridPicked) = 1
    /\ gridRows[1].var_code = "V2"
    /\ gridRows[2].var_code = "V1"
    /\ gridRows[1].file_type = gridRows[2].file_type
    /\ gridRows[1].label = <<"AGE", "OF", "HEAD">>
    /\ gridRows[2].label = <<"AGE", "OF", "HEAD">>
    /\ gridPicked[1].row.var_code = "V1"

(***************************************************************************)
(*                        Extraction: process_year                         *)
(***************************************************************************)

NA == -1           \* pd.NA in a cell
LabelText == -2    \* the text of a label row in a cell: not a number

ToSet(seq) == {seq[i] : i \in 1..Len(seq)}

Max(a, b) == IF a > b THEN a ELSE b

Message(level, kind, year, file, n) ==
    [level |-> level, kind |-> kind, year |-> year, file |-> file, n |-> n]

Raise(kind, year, file) == [kind |-> kind, year |-> year, file |-> file]

\* pd.to_numeric(value, errors="coerce")
ToNumeric(v) == IF v = LabelText THEN NA ELSE v

\* meta.dtype.lower()
LowerDtype(d) ==
    CASE d = "Float64" -> "float64"
      [] d = "INT64" -> "int64"
      [] OTHER -> d

ALLOWED_DTYPES == {"int64", "float64", "string", "category"}

\* The canonical metadata of the runs: numeric columns.
apply_dtype(series, meta, options) ==
    IF ~options.coerce_types \/ meta.dtype = None
    THEN [series |-> series, messages |-> <<>>]
    ELSE IF LowerDtype(meta.dtype) \notin ALLOWED_DTYPES
    THEN [series |-> series,
          messages |-> <<Message("WARNING", "unsupported dtype", 0, meta.canonical, 0)>>]
    ELSE [series |-> [i \in 1..Len(series) |-> ToNumeric(series[i])],
          messages |-> <<>>]

\* op.params of a na_codes operation: the codes of the list.
NaCodes(params) ==
    CASE params = <<"[9999]">> -> {9999}
      [] OTHER -> {}

\* One operation of apply_transforms on a series. The canonical metadata of
\* the runs declare na_codes, to_int and to_float.
ApplyOperation(series, op) ==
    CASE op.name = "na_codes" ->
             [i \in 1..Len(series) |->
                 IF series[i] \in NaCodes(op.params) THEN NA ELSE series[i]]
      [] op.name \in {"to_int", "to_float"} ->
             [i \in 1..Len(series) |-> ToNumeric(series[i])]
      [] OTHER -> series

\* for op in meta.transform.operations, in the order of the list.
RECURSIVE ApplyOperations(_, _, _)
ApplyOperations(series, operations, k) ==
    IF k > Len(operations) THEN series
    ELSE ApplyOperations(ApplyOperation(series, operations[k]), operations, k + 1)

apply_transforms(series, meta, options) ==
    IF ~options.apply_transforms \/ meta.transform.operations = <<>>
    THEN series
    ELSE ApplyOperations(series, meta.transform.operations, 1)

\* The first value of a row, from cell k on, that is not NA.
RECURSIVE FirstNonNA(_, _)
FirstNonNA(vals, k) ==
    IF k > Len(vals) THEN NA
    ELSE IF vals[k] # NA THEN vals[k]
    ELSE FirstNonNA(vals, k + 1)

\* block.ffill(axis=1) on one row: a missing cell takes the value of the
\* nearest cell to its left that has one.
RECURSIVE FfillCell(_, _)
FfillCell(vals, k) ==
    IF k < 1 THEN NA
    ELSE IF vals[k] # NA THEN vals[k]
    ELSE FfillCell(vals, k - 1)

Ffill(vals) == [k \in 1..Len(vals) |-> FfillCell(vals, k)]

\* Mutant of Bfill: the row is left as it is.
BfillNone(vals) == vals

\* .bfill(axis=1) on one row: a missing cell takes the value of the nearest
\* cell to its right that has one.
Bfill(vals) == [k \in 1..Len(vals) |-> FirstNonNA(vals, k)]

\* Mutant of SumNonNA: the sum of a row without values is 0.
RECURSIVE SumOrZero(_, _)
SumOrZero(vals, k) ==
    IF k > Len(vals) THEN 0
    ELSE (IF ToNumeric(vals[k]) = NA THEN 0 ELSE vals[k]) + SumOrZero(vals, k + 1)

\* numeric.sum(axis=1, min_count=1) on one row.
RECURSIVE SumNonNA(_, _)
SumNonNA(vals, k) ==
    IF k > Len(vals) THEN NA
    ELSE LET rest == SumNonNA(vals, k + 1)
             v == ToNumeric(vals[k])
         IN IF v = NA THEN rest ELSE IF rest = NA THEN v ELSE v + rest

\* numeric.max(axis=1) on one row.
RECURSIVE MaxNonNA(_, _)
MaxNonNA(vals, k) ==
    IF k > Len(vals) THEN NA
    ELSE LET rest == MaxNonNA(vals, k + 1)
             v == ToNumeric(vals[k])
         IN IF v = NA THEN rest ELSE IF rest = NA THEN v ELSE Max(v, rest)

\* block: the source columns of one canonical, a sequence of series.
resolve_duplicates(canonical, block, nrows, meta, options, year) ==
    LET width == Len(block)
        row(i) == [k \in 1..width |-> block[k][i]]
        strategy == meta.transform.duplicate_strategy
        out(series, resolved, unresolved, messages, raised) ==
            [series |-> series, resolved |-> resolved, unresolved |-> unresolved,
             messages |-> messages, raised |-> raised]
    IN IF width = 0
       THEN out([i \in 1..nrows |-> NA], 0, 0, <<>>, NoError)
       ELSE IF width = 1
       THEN out(block[1], 0, 0, <<>>, NoError)
       ELSE IF strategy = "first_non_na"
       THEN out([i \in 1..nrows |-> Bfill(Ffill(row(i)))[1]], width - 1, 0, <<>>, NoError)
       ELSE IF strategy = "sum_non_na"
       THEN out([i \in 1..nrows |-> SumNonNA(row(i), 1)], width - 1, 0, <<>>, NoError)
       ELSE IF strategy = "max_non_na"
       THEN out([i \in 1..nrows |-> MaxNonNA(row(i), 1)], width - 1, 0, <<>>, NoError)
       ELSE IF options.apply_transforms /\ options.fail_fast
       THEN out(<<>>, 0, 0, <<>>, Raise("no duplicate strategy", year, canonical))
       ELSE IF options.apply_transforms
       THEN out(block[1], 0, width - 1,
                <<Message("ERROR", "no duplicate strategy", year, canonical, 0)>>, NoError)
       ELSE out(block[1], 0, width - 1,
                <<Message("WARNING", "keeping first column", year, canonical, 0)>>, NoError)

AuditRow(year, file, present_cols, missing_required) ==
    [year |-> year, file |-> file, present_cols |-> present_cols,
     missing_required |-> missing_required,
     duplicate_canonicals_resolved |-> 0, duplicate_canonicals_unresolved |-> 0]

\* Mutant of ReadCsv: every column of the file is loaded.
ReadCsvAll(f, usecols) == [columns |-> f.cols, rows |-> f.rows]

\* Mutant of ReadAttempts: the file is read again as long as the frame is
\* empty, to the third read.
ReadAttemptsUntilData(f) ==
    IF f.rows # <<>> THEN 1 ELSE IF f.label_row THEN 2 ELSE 3

\* The reads of the data of a file: one with skiprows=[1] and, when that
\* frame is empty, one without it.
ReadAttempts(f) == IF f.rows # <<>> THEN 1 ELSE 2

\* pd.read_csv(path, usecols=available, skiprows=[1]); read again with the
\* label row when that frame is empty. A file that ends with its header has
\* no row to give then either.
ReadCsv(f, usecols) ==
    LET data == IF f.rows # <<>> THEN f.rows
                ELSE IF f.label_row THEN <<[c \in ToSet(f.cols) |-> LabelText]>>
                ELSE <<>>
    IN [columns |-> SelectSeq(f.cols, LAMBDA c : c \in usecols),
        rows |-> [i \in 1..Len(data) |-> [c \in usecols |-> data[i][c]]]]

\* The state process_year starts its loop over task.files with.
FilesStart ==
    [combined_frames |-> <<>>, assigned_var_codes |-> {}, messages |-> <<>>,
     audit_rows |-> <<>>, data_reads |-> <<>>, raised |-> NoError]

\* One round of the loop over task.files.
FileStep(acc, f, task) ==
    LET required == Cardinality(ToSet(task.all_canonicals))
        canonOf(codes) == {task.var_code_to_canonical[c] : c \in codes}
    IN
    IF f.status = "bad_header"
    THEN IF task.options.fail_fast
         THEN [acc EXCEPT !.raised = Raise("header", task.year, f.name)]
         ELSE [acc EXCEPT !.messages =
                  Append(@, Message("WARNING", "header", task.year, f.name, 0))]
    ELSE
    LET header_set == ToSet(f.cols)
        needed_codes == (DOMAIN task.var_code_to_canonical) \ acc.assigned_var_codes
        available == needed_codes \cap header_set
        duplicated == header_set \cap acc.assigned_var_codes
        messages == IF duplicated # {}
                    THEN Append(acc.messages,
                                Message("WARNING", "already assigned", task.year, f.name,
                                        Cardinality(duplicated)))
                    ELSE acc.messages
        assigned == acc.assigned_var_codes \cup available
    IN
    IF available = {}
    THEN [acc EXCEPT !.messages = messages,
                     !.audit_rows = Append(@, AuditRow(task.year, f.name, 0, required))]
    ELSE IF f.status = "bad_read"
    THEN IF task.options.fail_fast
         THEN [acc EXCEPT !.messages = messages, !.assigned_var_codes = assigned,
                          !.data_reads = Append(@, [file |-> f.name, n |-> 1]),
                          !.raised = Raise("read", task.year, f.name)]
         ELSE [acc EXCEPT !.assigned_var_codes = assigned,
                          !.data_reads = Append(@, [file |-> f.name, n |-> 1]),
                          !.messages =
                              Append(messages, Message("WARNING", "read", task.year, f.name, 0))]
    ELSE [acc EXCEPT !.messages = messages,
                     !.assigned_var_codes = assigned,
                     !.combined_frames = Append(@, ReadCsv(f, available)),
                     !.data_reads = Append(@, [file |-> f.name, n |-> ReadAttempts(f)]),
                     !.audit_rows =
                         Append(@, AuditRow(task.year, f.name, Cardinality(available),
                                            required - Cardinality(canonOf(assigned))))]

RECURSIVE FilesLoop(_, _, _)
FilesLoop(acc, task, k) ==
    IF k > Len(task.files) \/ acc.raised # NoError THEN acc
    ELSE FilesLoop(FileStep(acc, task.files[k], task), task, k + 1)

RECURSIVE MaxRowCount(_, _)
MaxRowCount(frames, k) ==
    IF k > Len(frames) THEN 0
    ELSE Max(Len(frames[k].rows), MaxRowCount(frames, k + 1))

RECURSIVE AllColumns(_, _)
AllColumns(frames, k) ==
    IF k > Len(frames) THEN <<>>
    ELSE frames[k].columns \o AllColumns(frames, k + 1)

\* pd.concat(combined_frames, axis=1): the frames side by side, on the union
\* of their row indexes.
ConcatColumns(frames) ==
    LET columns == AllColumns(frames, 1)
        owner(c) == CHOOSE k \in 1..Len(frames) : c \in ToSet(frames[k].columns)
    IN [columns |-> columns,
        rows |-> [i \in 1..MaxRowCount(frames, 1) |->
                     [c \in ToSet(columns) |->
                         IF i <= Len(frames[owner(c)].rows)
                         THEN frames[owner(c)].rows[i][c]
                         ELSE NA]]]

\* The state process_year starts its loop over the canonicals with.
CanonicalsStart(messages) ==
    [canonical_columns |-> <<>>, names |-> <<>>, resolved |-> 0, unresolved |-> 0,
     messages |-> messages, raised |-> NoError]

\* Mutant of CanonicalStep: a canonical without a source column in the year
\* gets no column.
CanonicalStepSkipMissing(acc, canonical, combined, task) ==
    LET codes == task.var_codes_by_canonical[canonical]
        available_codes == SelectSeq(codes, LAMBDA c : c \in ToSet(combined.columns))
        nrows == Len(combined.rows)
        block == [k \in 1..Len(available_codes) |->
                     [i \in 1..nrows |-> combined.rows[i][available_codes[k]]]]
        meta == task.canonical_meta[canonical]
        res == resolve_duplicates(canonical, block, nrows, meta, task.options, task.year)
        typed == apply_dtype(res.series, meta, task.options)
        series == apply_transforms(typed.series, meta, task.options)
    IN IF available_codes = <<>>
       THEN acc
       ELSE IF res.raised # NoError
       THEN [acc EXCEPT !.raised = res.raised]
       ELSE [acc EXCEPT !.canonical_columns = Append(@, series),
                        !.names = Append(@, canonical),
                        !.resolved = @ + res.resolved,
                        !.unresolved = @ + res.unresolved,
                        !.messages = @ \o res.messages \o typed.messages]

\* One round of the loop over sorted(task.all_canonicals).
CanonicalStep(acc, canonical, combined, task) ==
    LET codes == task.var_codes_by_canonical[canonical]
        available_codes == SelectSeq(codes, LAMBDA c : c \in ToSet(combined.columns))
        nrows == Len(combined.rows)
        block == [k \in 1..Len(available_codes) |->
                     [i \in 1..nrows |-> combined.rows[i][available_codes[k]]]]
        meta == task.canonical_meta[canonical]
        res == resolve_duplicates(canonical, block, nrows, meta, task.options, task.year)
        typed == apply_dtype(res.series, meta, task.options)
        series == apply_transforms(typed.series, meta, task.options)
    IN IF res.raised # NoError
       THEN [acc EXCEPT !.raised = res.raised]
       ELSE [acc EXCEPT !.canonical_columns = Append(@, series),
                        !.names = Append(@, canonical),
                        !.resolved = @ + res.resolved,
                        !.unresolved = @ + res.unresolved,
                        !.messages = @ \o res.messages \o typed.messages]

RECURSIVE CanonicalsLoop(_, _, _, _)
CanonicalsLoop(acc, combined, task, k) ==
    IF k > Len(task.all_canonicals) \/ acc.raised # NoError THEN acc
    ELSE CanonicalsLoop(CanonicalStep(acc, task.all_canonicals[k], combined, task),
                        combined, task, k + 1)

YearResult(year, frame, messages, audit_rows, raised) ==
    [year |-> year, frame |-> frame, messages |-> messages, audit_rows |-> audit_rows,
     raised |-> raised]

process_year(task) ==
    IF task.files = <<>>
    THEN YearResult(task.year, NoFrame,
                    <<Message("WARNING", "no files", task.year, "", 0)>>, <<>>, NoError)
    ELSE
    LET files == FilesLoop(FilesStart, task, 1) IN
    IF files.raised # NoError
    THEN YearResult(task.year, NoFrame, <<>>, <<>>, files.raised)
    ELSE IF files.combined_frames = <<>>
    THEN YearResult(task.year, NoFrame,
                    Append(files.messages, Message("ERROR", "no usable files", task.year, "", 0)),
                    files.audit_rows, NoError)
    ELSE
    LET combined == ConcatColumns(files.combined_frames)
        cols == CanonicalsLoop(CanonicalsStart(files.messages), combined, task, 1)
        year_frame ==
            [columns |-> <<"year">> \o cols.names,
             rows |-> [i \in 1..Len(combined.rows) |->
                          [c \in {"year"} \cup ToSet(cols.names) |->
                              IF c = "year" THEN task.year
                              ELSE LET k == CHOOSE k \in 1..Len(cols.names) : cols.names[k] = c
                                   IN cols.canonical_columns[k][i]]]]
        present_canonicals ==
            {task.var_code_to_canonical[c] : c \in files.assigned_var_codes}
        missing == Cardinality(ToSet(task.all_canonicals) \ present_canonicals)
        audit_rows ==
            [k \in 1..Len(files.audit_rows) |->
                [files.audit_rows[k] EXCEPT
                    !.duplicate_canonicals_resolved = cols.resolved,
                    !.duplicate_canonicals_unresolved = cols.unresolved,
                    !.missing_required = Max(0, missing)]]
    IN IF cols.raised # NoError
       THEN YearResult(task.year, NoFrame, <<>>, <<>>, cols.raised)
       ELSE YearResult(task.year, year_frame,
                       Append(cols.messages,
                              Message("INFO", "processed", task.year, "", Len(year_frame.rows))),
                       audit_rows, NoError)

(***************************************************************************)
(*                         Extraction: run_extract                         *)
(***************************************************************************)

MaxYears == 2       \* years that have data files and mapping rows
MaxParallel == 2    \* the largest --parallel

\* The years of the data files: 1999, 2001, ...
YearOf(k) == 1997 + 2 * k

FamName(year) ==
    CASE year = 1999 -> "FAM1999_full.csv"
      [] year = 2001 -> "FAM2001_full.csv"
      [] year = 2003 -> "FAM2003_full.csv"
      [] OTHER -> "FAM2005_full.csv"

WlthName(year) ==
    CASE year = 1999 -> "WLTH1999_full.csv"
      [] year = 2001 -> "WLTH2001_full.csv"
      [] year = 2003 -> "WLTH2003_full.csv"
      [] OTHER -> "WLTH2005_full.csv"

\* A data file: its header read or not, its columns, its body read or not, and
\* the rows below the label row.
DataFile(name, status, cols, vals) ==
    [name |-> name, status |-> status, cols |-> cols, label_row |-> TRUE,
     rows |-> [i \in 1..Len(vals) |-> [c \in ToSet(cols) |-> vals[i]]]]

FamFiles(year) ==
    {DataFile(FamName(year), "ok", <<"ER1">>, vals) : vals \in {<<1, 2>>, <<3>>}}
        \cup {DataFile(FamName(year), status, <<"ER1">>, <<>>) :
                 status \in {"bad_header", "bad_read"}}

WlthFile(year) == DataFile(WlthName(year), "ok", <<"S1">>, <<10, 20>>)

\* files_by_year[year]: the files of the year sorted by name.
YearFiles(year) ==
    {<<f>> : f \in FamFiles(year)} \cup {<<f, WlthFile(year)>> : f \in FamFiles(year)}

\* files_by_year as gather_files returns it: the years in ascending order.
FilesByYear ==
    UNION {{fby \in [1..n -> UNION {YearFiles(YearOf(k)) : k \in 1..n}] :
               \A k \in 1..n : fby[k] \in YearFiles(YearOf(k))} : n \in 1..MaxYears}

\* meta of canonical_metadata: income and wealth, both float64, no transform.
canonical_meta ==
    [canonical \in {"income", "wealth"} |->
        [canonical |-> canonical, dtype |-> "float64", transform |-> TransformSpec]]

YearTask(year, files, options) ==
    [year |-> year, files |-> files,
     var_codes_by_canonical |-> [income |-> <<"ER1">>, wealth |-> <<"S1">>],
     var_code_to_canonical |-> [code \in {"ER1", "S1"} |->
                                   IF code = "ER1" THEN "income" ELSE "wealth"],
     all_canonicals |-> <<"income", "wealth">>,
     canonical_meta |-> canonical_meta,
     options |-> options]

\* sorted() of a set of canonical names.
SortedNames(names) == SelectSeq(<<"income", "wealth">>, LAMBDA c : c \in names)

IndexColsChoices == {<<>>, <<"income">>, <<"year", "income">>}

NoResult == YearResult(0, NoFrame, <<>>, <<>>, NoError)

\* Mutant of YearBefore: the results are sorted by descending year.
YearAfter(a, b) == a.year > b.year

\* key=lambda r: r.year
YearBefore(a, b) == a.year < b.year

RECURSIVE InsertResult(_, _)
InsertResult(sorted, x) ==
    IF sorted = <<>> THEN <<x>>
    ELSE IF YearBefore(x, sorted[Len(sorted)])
         THEN Append(InsertResult(SubSeq(sorted, 1, Len(sorted) - 1), x), sorted[Len(sorted)])
         ELSE Append(sorted, x)

\* sorted(results, key=lambda r: r.year)
RECURSIVE sorted_results(_, _)
sorted_results(results, n) ==
    IF n = 0 THEN <<>> ELSE InsertResult(sorted_results(results, n - 1), results[n])

RECURSIVE AuditRows(_, _)
AuditRows(results, k) ==
    IF k > Len(results) THEN <<>>
    ELSE results[k].audit_rows \o AuditRows(results, k + 1)

\* frame[canonical] = pd.NA for every canonical the frame lacks.
Align(frame, canonical_list) ==
    [i \in 1..Len(frame.rows) |->
        [c \in {"year"} \cup ToSet(canonical_list) |->
            IF c \in DOMAIN frame.rows[i] THEN frame.rows[i][c] ELSE NA]]

\* pd.concat(aligned_frames, axis=0, ignore_index=True)
RECURSIVE ConcatRows(_, _, _)
ConcatRows(frames, canonical_list, k) ==
    IF k > Len(frames) THEN <<>>
    ELSE Align(frames[k], canonical_list) \o ConcatRows(frames, canonical_list, k + 1)

\* Mutant of RowYearBefore: the panel is sorted by descending year.
RowYearAfter(a, b) == a["year"] > b["year"]

\* The order panel.sort_values("year") puts two rows in.
RowYearBefore(a, b) == a["year"] < b["year"]

RECURSIVE InsertByYear(_, _)
InsertByYear(sorted, x) ==
    IF sorted = <<>> THEN <<x>>
    ELSE IF RowYearBefore(x, sorted[Len(sorted)])
         THEN Append(InsertByYear(SubSeq(sorted, 1, Len(sorted) - 1), x), sorted[Len(sorted)])
         ELSE Append(sorted, x)

\* panel.sort_values("year"); rows of one year keep their order.
RECURSIVE sort_values_year(_, _)
sort_values_year(rows, n) ==
    IF n = 0 THEN <<>> ELSE InsertByYear(sort_values_year(rows, n - 1), rows[n])

\* a sorts before b on the index columns, column after column, NA last.
RECURSIVE IndexBefore(_, _, _, _)
IndexBefore(a, b, existing, k) ==
    IF k > Len(existing) THEN FALSE
    ELSE LET x == a[existing[k]]
             y == b[existing[k]]
         IN IF x = y THEN IndexBefore(a, b, existing, k + 1)
            ELSE IF x = NA THEN FALSE
            ELSE IF y = NA THEN TRUE
            ELSE x < y

RECURSIVE InsertByIndex(_, _, _)
InsertByIndex(sorted, x, existing) ==
    IF sorted = <<>> THEN <<x>>
    ELSE IF IndexBefore(x, sorted[Len(sorted)], existing, 1)
         THEN Append(InsertByIndex(SubSeq(sorted, 1, Len(sorted) - 1), x, existing),
                     sorted[Len(sorted)])
         ELSE Append(sorted, x)

\* panel.set_index(existing); panel.sort_index()
RECURSIVE sort_index(_, _, _)
sort_index(rows, existing, n) ==
    IF n = 0 THEN <<>>
    ELSE InsertByIndex(sort_index(rows, existing, n - 1), rows[n], existing)

\* run_extract from the sort of the results on: the audit rows, the frames,
\* the alignment, the panel and its order.
MergeYearResults(results, index_cols) ==
    LET ordered == sorted_results(results, Len(results))
        audit_rows == AuditRows(ordered, 1)
        with_frame == SelectSeq(ordered, LAMBDA r : r.frame # NoFrame)
        frames == [k \in 1..Len(with_frame) |-> with_frame[k].frame]
        canonical_inventory ==
            UNION {ToSet(frames[k].columns) \ {"year"} : k \in 1..Len(frames)}
        canonical_list == SortedNames(canonical_inventory)
        ordered_cols == <<"year">> \o canonical_list
        panel == ConcatRows(frames, canonical_list, 1)
        by_year == sort_values_year(panel, Len(panel))
        existing == SelectSeq(index_cols, LAMBDA c : c \in ToSet(ordered_cols))
        rows == IF index_cols # <<>>
                THEN sort_index(by_year, existing, Len(by_year))
                ELSE by_year
    IN IF frames = <<>>
       THEN [op |-> "aborted", panel |-> NoPanel, audit |-> <<>>,
             error |-> Raise("no year produced data", 0, "")]
       ELSE [op |-> "written",
             panel |-> [index |-> IF index_cols # <<>> THEN existing ELSE <<>>,
                        columns |-> SelectSeq(ordered_cols,
                                        LAMBDA c : index_cols = <<>> \/ c \notin ToSet(existing)),
                        rows |-> rows],
             audit |-> audit_rows,
             error |-> NoError]

\* The processes that run tasks at one time.
Workers == IF exParallel > 1 THEN exParallel ELSE 1

Running == {i \in 1..Len(exTasks) : exState[i] = "running"}

ExStart ==
    /\ exOptions \in [fail_fast : BOOLEAN, apply_transforms : {FALSE}, coerce_types : {TRUE}]
    /\ exParallel \in 1..MaxParallel
    /\ exIndexCols \in IndexColsChoices
    /\ exTasks \in {[k \in 1..Len(fby) |-> YearTask(YearOf(k), fby[k], exOptions)] :
                       fby \in FilesByYear}
    /\ exState = [i \in 1..Len(exTasks) |-> "pending"]
    /\ exResults = [i \in 1..Len(exTasks) |-> NoResult]
    /\ exArrived = <<>>
    /\ exPanel = NoPanel
    /\ exAudit = <<>>
    /\ exError = NoError
    /\ exOp = "init"

\* A process takes the next task: the loop of the sequential run, or a worker
\* of the pool.
StartTask ==
    /\ exOp \in {"init", "running"}
    /\ Cardinality(Running) < Workers
    /\ \E i \in 1..Len(exTasks) :
         /\ exState[i] = "pending"
         /\ \A j \in 1..(i - 1) : exState[j] # "pending"
         /\ exState' = [exState EXCEPT ![i] = "running"]
    /\ exOp' = "running"
    /\ UNCHANGED <<exOptions, exParallel, exIndexCols, exTasks, exResults, exArrived,
                   exPanel, exAudit, exError>>
    /\ UNCHANGED <<dslVars, gridVars, yrVars>>

\* Mutant of KeptException: the exception of a task is dropped.
DroppedException(kept, raised) == NoError

\* The exception run_extract leaves with: the first one that a task raised.
KeptException(kept, raised) == IF kept = NoError THEN raised ELSE kept

\* process_year returns or raises. In the sequential run the exception leaves
\* run_extract at once; the pool keeps the first one that arrives until every
\* task is done.
FinishTask ==
    /\ exOp = "running"
    /\ \E i \in Running :
         LET result == process_year(exTasks[i]) IN
         /\ exState' = [exState EXCEPT ![i] = "done"]
         /\ exResults' = [exResults EXCEPT ![i] = result]
         /\ exArrived' = Append(exArrived, i)
         /\ exError' = KeptException(exError, result.raised)
         /\ exOp' = IF result.raised # NoError /\ exParallel <= 1 THEN "raised" ELSE "running"
    /\ UNCHANGED <<exOptions, exParallel, exIndexCols, exTasks, exPanel, exAudit>>
    /\ UNCHANGED <<dslVars, gridVars, yrVars>>

\* Every task is done: pool.map raises the exception it kept, or the results,
\* in the order of the tasks, are merged and the outputs written.
MergeAndWrite ==
    /\ exOp = "running"
    /\ \A i \in 1..Len(exTasks) : exState[i] = "done"
    /\ IF exError # NoError
       THEN /\ exOp' = "raised"
            /\ UNCHANGED <<exPanel, exAudit, exError>>
       ELSE LET out == MergeYearResults(exResults, exIndexCols) IN
            /\ exOp' = out.op
            /\ exPanel' = out.panel
            /\ exAudit' = out.audit
            /\ exError' = out.error
    /\ UNCHANGED <<exOptions, exParallel, exIndexCols, exTasks, exState, exResults,
                   exArrived>>
    /\ UNCHANGED <<dslVars, gridVars, yrVars>>

ExNext == StartTask \/ FinishTask \/ MergeAndWrite

ExInit == ExStart /\ DslIdle /\ GridIdle /\ YrIdle

SpecExtract == ExInit /\ [][ExNext]_vars

(***************************************************************************)
(*                       Extraction: the properties                        *)
(***************************************************************************)

\* What process_year returns for every task, taken in the order of the tasks.
TaskOrderResults == [i \in 1..Len(exTasks) |-> process_year(exTasks[i])]

NonDecreasing(seq) == \A i \in 1..(Len(seq) - 1) : seq[i] <= seq[i + 1]

YearColumn(rows) == [i \in 1..Len(rows) |-> rows[i]["year"]]

\* C1: for a fixed set of year tasks the panel and the audit log of
\* run_extract are the same whatever the order in which the tasks run and
\* complete, sequentially or in a pool of any size: they are the ones of the
\* tasks taken in ascending year order, and when a task raises neither is
\* written.
C1_ScheduleIndependent ==
    exOp \in {"written", "aborted", "raised"} =>
        LET results == TaskOrderResults
            failed == {i \in 1..Len(exTasks) : results[i].raised # NoError}
            framed == {i \in 1..Len(exTasks) : results[i].frame # NoFrame}
        IN /\ \A i, j \in 1..Len(exTasks) : i < j => exTasks[i].year < exTasks[j].year
           /\ failed # {} => (exOp = "raised" /\ exPanel = NoPanel /\ exAudit = <<>>)
           /\ (failed = {} /\ framed = {}) =>
                  (exOp = "aborted" /\ exPanel = NoPanel /\ exAudit = <<>>)
           /\ (failed = {} /\ framed # {}) =>
                  /\ exOp = "written"
                  /\ exAudit = AuditRows(results, 1)
                  /\ NonDecreasing([k \in 1..Len(exAudit) |-> exAudit[k].year])
                  /\ exPanel.rows =
                       LET rows == ConcatRows([k \in 1..Len(exTasks) |-> results[k].frame],
                                              <<"income", "wealth">>, 1)
                           by_year == sort_values_year(rows, Len(rows))
                       IN IF exIndexCols = <<>> THEN by_year
                          ELSE sort_index(by_year, exPanel.index, Len(by_year))

\* A pool run whose second task came back first, with audit rows of two years.
C1_Witness ==
    /\ exOp = "written"
    /\ exParallel > 1
    /\ Len(exArrived) >= 2
    /\ exArrived[1] > exArrived[2]
    /\ Len(exAudit) >= 2
    /\ exAudit[1].year < exAudit[Len(exAudit)].year

\* The panel holds the rows of every year whose task returned a frame.
HoldsEveryYear ==
    \A i \in 1..Len(exTasks) :
        exResults[i].frame # NoFrame =>
            LET of_year == SelectSeq(exPanel.rows, LAMBDA r : r["year"] = exTasks[i].year)
            IN /\ Len(of_year) = Len(exResults[i].frame.rows)
               /\ ToSet(of_year) = ToSet(exResults[i].frame.rows)

\* The run of run_selftest: income in FAM1999 and FAM2001, wealth in WLTH1999.
IsSelfTest ==
    /\ exOptions.fail_fast
    /\ exParallel = 1
    /\ exIndexCols = <<>>
    /\ exTasks = <<YearTask(1999, <<DataFile(FamName(1999), "ok", <<"ER1">>, <<1, 2>>),
                                    WlthFile(1999)>>, exOptions),
                   YearTask(2001, <<DataFile(FamName(2001), "ok", <<"ER1">>, <<3>>)>>,
                            exOptions)>>

\* C2, as stated: the panel written has its rows in non-decreasing year order
\* and holds the rows of every year whose task returned a frame; in the
\* self-test its year column is 1999, 1999, 2001.
C2_PanelSortedByYear ==
    exOp = "written" =>
        /\ NonDecreasing(YearColumn(exPanel.rows))
        /\ HoldsEveryYear
        /\ IsSelfTest => YearColumn(exPanel.rows) = <<1999, 1999, 2001>>

\* C2, amended: when no index column is asked for, or year is the first index
\* column of the panel, the rows are in non-decreasing year order; in every
\* run the panel holds the rows of every year whose task returned a frame; in
\* the self-test its year column is 1999, 1999, 2001.
C2_PanelSortedByYearUnlessIndexed ==
    exOp = "written" =>
        /\ (exIndexCols = <<>> \/ (exPanel.index # <<>> /\ exPanel.index[1] = "year"))
              => NonDecreasing(YearColumn(exPanel.rows))
        /\ HoldsEveryYear
        /\ IsSelfTest => YearColumn(exPanel.rows) = <<1999, 1999, 2001>>

\* The self-test run has written its panel.
C2_Witness ==
    /\ exOp = "written"
    /\ IsSelfTest
    /\ Len(exPanel.rows) = 3
    /\ exPanel.rows[3]["year"] = 2001

(***************************************************************************)
(*                     Extraction: process_year alone                      *)
(***************************************************************************)

\* What a column of a data file holds below the label row.
ColumnContents == {<<1, 9999, 3>>, <<NA, 5>>, <<3, NA>>, <<NA, NA>>, <<9999>>}

RECURSIVE LongestContent(_, _, _)
LongestContent(cols, contents, k) ==
    IF k > Len(cols) THEN 0
    ELSE Max(Len(contents[cols[k]]), LongestContent(cols, contents, k + 1))

\* A data file given column by column; short columns end in empty cells.
TableFile(name, status, cols, contents) ==
    [name |-> name, status |-> status, cols |-> cols, label_row |-> TRUE,
     rows |-> [i \in 1..LongestContent(cols, contents, 1) |->
                  [c \in ToSet(cols) |->
                      IF i <= Len(contents[c]) THEN contents[c][i] ELSE NA]]]

\* The family file of 1999: both source columns of income, or one of them; a
\* file with no row below its label row, or below its header.
FamTables ==
    {TableFile(FamName(1999), "ok", <<"ER1", "ER2">>, contents) :
        contents \in [{"ER1", "ER2"} -> ColumnContents]}
    \cup {TableFile(FamName(1999), "ok", <<"ER1">>, contents) :
             contents \in [{"ER1"} -> ColumnContents]}
    \cup {TableFile(FamName(1999), "ok", <<"ER2">>, contents) :
             contents \in [{"ER2"} -> ColumnContents]}
    \cup {[TableFile(FamName(1999), "ok", <<"ER1">>, [c \in {"ER1"} |-> <<>>])
              EXCEPT !.label_row = b] : b \in BOOLEAN}
    \cup {TableFile(FamName(1999), status, <<"ER1", "ER2">>,
                    [c \in {"ER1", "ER2"} |-> <<>>]) :
             status \in {"bad_header", "bad_read"}}

\* The wealth file of 1999: the wealth column, alone or beside a column of
\* income the family file has too; a file that cannot be read; a file with no
\* column of the mapping.
WlthTables ==
    {TableFile(WlthName(1999), "ok", <<"S1">>, [c \in {"S1"} |-> <<10, 20>>])}
    \cup {TableFile(WlthName(1999), "ok", <<"S1", "ER1">>,
                    [c \in {"S1", "ER1"} |-> IF c = "S1" THEN <<10, 20>> ELSE content]) :
             content \in {<<NA, 5>>, <<9999>>}}
    \cup {TableFile(WlthName(1999), "bad_read", <<"S1">>, [c \in {"S1"} |-> <<>>]),
          TableFile(WlthName(1999), "ok", <<"X9">>, [c \in {"X9"} |-> <<3, NA>>])}

\* task.files of the year.
YearFileLists ==
    {<<>>} \cup {<<f>> : f \in FamTables}
           \cup {<<f, w>> : f \in FamTables, w \in WlthTables}

\* The transform cells of the mapping rows of income, split at ';'.
TransformCells ==
    {strategy \o operations :
        strategy \in {<<>>, <<"first_non_na">>, <<"sum_non_na">>, <<"max_non_na">>},
        operations \in {<<>>, <<"na_codes:[9999]">>, <<"to_int", "na_codes:[9999]">>}}

\* The task of 1999 when income has the source columns ER1 and ER2.
IncomeTask(files, cell, options) ==
    [year |-> 1999, files |-> files,
     var_codes_by_canonical |-> [income |-> <<"ER1", "ER2">>, wealth |-> <<"S1">>],
     var_code_to_canonical |-> [code \in {"ER1", "ER2", "S1"} |->
                                   IF code = "S1" THEN "wealth" ELSE "income"],
     all_canonicals |-> <<"income", "wealth">>,
     canonical_meta |->
         [canonical \in {"income", "wealth"} |->
             [canonical |-> canonical, dtype |-> "float64",
              transform |-> IF canonical = "income"
                            THEN parse_transform_string(cell, options.fail_fast).spec
                            ELSE TransformSpec]],
     options |-> options]

\* The task of 1999 when two mapping rows of income, a FAM row and a WLTH
\* row, both name ER1: canonical_map[canonical].append(var_code) row by row.
RepeatedCodeTask(files, cell, options) ==
    [IncomeTask(files, cell, options) EXCEPT
        !.var_codes_by_canonical = [income |-> <<"ER1", "ER1">>, wealth |-> <<"S1">>],
        !.var_code_to_canonical = [code \in {"ER1", "S1"} |->
                                      IF code = "S1" THEN "wealth" ELSE "income"]]

\* The files of the year of the tasks with the repeated code.
RepeatedCodeFileLists ==
    LET fam == {TableFile(FamName(1999), "ok", <<"ER1">>, contents) :
                   contents \in [{"ER1"} -> ColumnContents]}
        wlth == TableFile(WlthName(1999), "ok", <<"S1">>, [c \in {"S1"} |-> <<10, 20>>])
    IN {<<f>> : f \in fam} \cup {<<f, wlth>> : f \in fam}

YearOptions == [fail_fast : BOOLEAN, apply_transforms : BOOLEAN, coerce_types : {TRUE}]

YearTasks ==
    {IncomeTask(files, cell, options) :
        files \in YearFileLists, cell \in TransformCells, options \in YearOptions}
    \cup {RepeatedCodeTask(files, cell, options) :
             files \in RepeatedCodeFileLists, cell \in TransformCells,
             options \in YearOptions}

YrStart ==
    /\ yrTask = <<>>
    /\ yrResult = <<>>
    /\ yrLoop = <<>>
    /\ yrOp = "init"

\* process_year(task) on one task of the set.
ProcessYearFrom(tasks) ==
    /\ yrOp = "init"
    /\ \E task \in tasks :
         /\ yrTask' = task
         /\ yrResult' = process_year(task)
         /\ yrLoop' = FilesLoop(FilesStart, task, 1)
    /\ yrOp' = "done"
    /\ UNCHANGED <<dslVars, gridVars, exVars>>

\* process_year(task) on one task.
ProcessYear == ProcessYearFrom(YearTasks)

\* The tasks without a transform cell, transforms disabled: every list of
\* files of the year, in strict and in permissive mode.
ReadTasks ==
    {IncomeTask(files, <<>>, options) :
        files \in YearFileLists,
        options \in [fail_fast : BOOLEAN, apply_transforms : {FALSE}, coerce_types : {TRUE}]}

\* process_year(task) on one of these tasks.
ReadYear == ProcessYearFrom(ReadTasks)

YrNext == ProcessYear

YrInit == YrStart /\ DslIdle /\ GridIdle /\ ExIdle

SpecYear == YrInit /\ [][YrNext]_vars

\* run_extract calls process_year on the task and the call runs.
SpecYearFair == YrInit /\ [][ReadYear]_vars /\ WF_vars(ReadYear)

(***************************************************************************)
(*                  Extraction: properties of process_year                 *)
(***************************************************************************)

\* The task has been processed and a frame returned.
YearDone == yrOp = "done" /\ yrResult.raised = NoError /\ yrResult.frame # NoFrame

IncomeTransform == yrTask.canonical_meta["income"].transform

\* apply_transforms has run operations on the income column.
OperationsRun == yrTask.options.apply_transforms /\ IncomeTransform.operations # <<>>

\* The family file is read and holds both source columns of income.
BothIncomeColumns ==
    /\ yrTask.var_codes_by_canonical["income"] = <<"ER1", "ER2">>
    /\ yrTask.files # <<>>
    /\ yrTask.files[1].status = "ok"
    /\ yrTask.files[1].cols = <<"ER1", "ER2">>

\* The cell of column c in row i of the family file, empty below its last row.
FamCell(c, i) ==
    IF i <= Len(yrTask.files[1].rows) THEN yrTask.files[1].rows[i][c] ELSE NA

IncomeColumn == [i \in 1..Len(yrResult.frame.rows) |-> yrResult.frame.rows[i]["income"]]

\* C12: under sum_non_na every row of the resolved series is the sum of the
\* row's source values that are not missing, and a row whose source columns
\* are all missing stays missing, never 0; the columns [NA, 5] and [3, NA]
\* give [3, 5].
C12_SumNonNaKeepsMissing ==
    (YearDone /\ BothIncomeColumns /\ ~OperationsRun
       /\ IncomeTransform.duplicate_strategy = "sum_non_na") =>
        /\ \A i \in 1..Len(IncomeColumn) :
             LET a == FamCell("ER1", i)
                 b == FamCell("ER2", i)
             IN IncomeColumn[i] = IF a = NA /\ b = NA THEN NA
                                  ELSE (IF a = NA THEN 0 ELSE a) + (IF b = NA THEN 0 ELSE b)
        /\ (/\ Len(yrTask.files) = 1
            /\ yrTask.files[1].rows = <<[ER1 |-> NA, ER2 |-> 3], [ER1 |-> 5, ER2 |-> NA]>>)
              => IncomeColumn = <<3, 5>>

\* Two source columns without a value in the first row have been summed.
C12_Witness ==
    /\ YearDone /\ BothIncomeColumns /\ ~OperationsRun
    /\ IncomeTransform.duplicate_strategy = "sum_non_na"
    /\ yrTask.files[1].rows = <<[ER1 |-> NA, ER2 |-> NA], [ER1 |-> 5, ER2 |-> NA]>>
    /\ IncomeColumn[1] = NA
    /\ IncomeColumn[2] = 5

\* The transform of income declares na_codes:[9999] and transforms are on.
DeclaresNaCodes ==
    /\ yrTask.options.apply_transforms
    /\ \E k \in 1..Len(IncomeTransform.operations) :
           IncomeTransform.operations[k].name = "na_codes"

\* A source value once the declared sentinel is masked.
Masked(v) == IF v = 9999 THEN NA ELSE v

\* What a duplicate strategy makes of two source values that are numbers or
\* missing.
Aggregate(strategy, a, b) ==
    IF a = NA THEN b
    ELSE IF b = NA THEN a
    ELSE IF strategy = "sum_non_na" THEN a + b
    ELSE IF strategy = "max_non_na" THEN Max(a, b)
    ELSE a

\* C13: for a canonical whose transform declares na_codes, the values equal
\* to a declared sentinel are masked to missing before any numeric coercion
\* of the year pipeline, the numeric aggregation of duplicate columns
\* included: the canonical's column is the one the pipeline gives on the
\* masked source values; na_codes:[9999] on [1, 9999, 3] yields [1, NA, 3].
C13_MaskedBeforeCoercion ==
    (YearDone /\ DeclaresNaCodes /\ yrTask.files[1].status = "ok") =>
        /\ (yrTask.files[1].cols = <<"ER1", "ER2">>
              /\ IncomeTransform.duplicate_strategy # None) =>
               \A i \in 1..Len(IncomeColumn) :
                   IncomeColumn[i] = Aggregate(IncomeTransform.duplicate_strategy,
                                               Masked(FamCell("ER1", i)),
                                               Masked(FamCell("ER2", i)))
        /\ yrTask.files[1].cols = <<"ER1">> =>
               \A i \in 1..Len(IncomeColumn) : IncomeColumn[i] = Masked(FamCell("ER1", i))

\* The codes of the mapping of the year.
RequiredCodes == DOMAIN yrTask.var_code_to_canonical

\* The header of file k was read and holds the code.
HeaderHolds(k, code) ==
    yrTask.files[k].status # "bad_header" /\ code \in ToSet(yrTask.files[k].cols)

\* File k is the first file in listing order whose header holds the code.
FirstHolder(k, code) ==
    HeaderHolds(k, code) /\ \A j \in 1..(k - 1) : ~HeaderHolds(j, code)

\* The files whose data were loaded: read without failure, and first holder
\* of a required code.
LoadedFiles ==
    SelectSeq([k \in 1..Len(yrTask.files) |-> k],
              LAMBDA k : /\ yrTask.files[k].status = "ok"
                         /\ \E code \in RequiredCodes : FirstHolder(k, code))

\* C14: within a year task every required var_code is loaded from at most one
\* file, the first file in listing order whose header holds it; a later file
\* whose header holds a var_code already claimed never loads it again, and a
\* WARNING naming the collision is recorded.
C14_FirstFileWins ==
    (yrOp = "done" /\ yrTask.files # <<>> /\ yrLoop.raised = NoError) =>
        /\ Len(yrLoop.combined_frames) = Len(LoadedFiles)
        /\ \A j \in 1..Len(LoadedFiles) :
               ToSet(yrLoop.combined_frames[j].columns)
                   = {code \in RequiredCodes : FirstHolder(LoadedFiles[j], code)}
        /\ \A code \in RequiredCodes :
               Cardinality({j \in 1..Len(yrLoop.combined_frames) :
                               code \in ToSet(yrLoop.combined_frames[j].columns)}) <= 1
        /\ \A k \in 1..Len(yrTask.files) :
               (\E code \in RequiredCodes : HeaderHolds(k, code) /\ ~FirstHolder(k, code))
                   => \E m \in 1..Len(yrLoop.messages) :
                          /\ yrLoop.messages[m].level = "WARNING"
                          /\ yrLoop.messages[m].kind = "already assigned"
                          /\ yrLoop.messages[m].file = yrTask.files[k].name

\* The wealth file holds ER1, which the family file has claimed: only S1 is
\* loaded from it and the collision is in the messages.
C14_Witness ==
    /\ yrOp = "done"
    /\ Len(yrTask.files) = 2
    /\ yrTask.files[1].status = "ok"
    /\ yrTask.files[2].cols = <<"S1", "ER1">>
    /\ Len(yrLoop.combined_frames) = 2
    /\ yrLoop.combined_frames[2].columns = <<"S1">>
    /\ \E m \in 1..Len(yrLoop.messages) : yrLoop.messages[m].kind = "already assigned"

\* The source columns of the canonical that were loaded in the year.
LoadedCodes(canonical) ==
    {code \in ToSet(yrTask.var_codes_by_canonical[canonical]) :
        \E j \in 1..Len(yrLoop.combined_frames) :
            code \in ToSet(yrLoop.combined_frames[j].columns)}

\* C15: a frame that process_year returns has exactly the columns 'year' and
\* then every required canonical of the run in sorted order; a canonical with
\* no source column in that year is a column of missing values.
C15_FrameColumns ==
    YearDone =>
        /\ yrResult.frame.columns = <<"year">> \o SortedNames(ToSet(yrTask.all_canonicals))
        /\ \A i \in 1..Len(yrResult.frame.rows) :
               /\ DOMAIN yrResult.frame.rows[i] = {"year"} \cup ToSet(yrTask.all_canonicals)
               /\ yrResult.frame.rows[i]["year"] = yrTask.year
               /\ \A canonical \in ToSet(yrTask.all_canonicals) :
                      LoadedCodes(canonical) = {} => yrResult.frame.rows[i][canonical] = NA

\* A year with rows in which no source column of income was loaded.
C15_Witness ==
    /\ YearDone
    /\ LoadedCodes("income") = {}
    /\ LoadedCodes("wealth") # {}
    /\ Len(yrResult.frame.rows) = 2
    /\ yrResult.frame.rows[1]["income"] = NA
    /\ yrResult.frame.rows[1]["wealth"] # NA

\* No file of the year can be used: the year has no file, or each file fails
\* to read or holds no required code.
NoUsableFile ==
    \A k \in 1..Len(yrTask.files) :
        \/ yrTask.files[k].status # "ok"
        \/ ToSet(yrTask.files[k].cols) \cap RequiredCodes = {}

ErrorEntries(messages) ==
    Cardinality({m \in 1..Len(messages) : messages[m].level = "ERROR"})

\* C16: a year of the mapping with zero matching or zero usable source files
\* contributes no rows and exactly one ERROR entry, and does not abort the
\* run: its task returns, without a frame, and the run goes on.
C16_UnusableYearOneError ==
    (yrOp = "done" /\ NoUsableFile) =>
        /\ yrResult.raised = NoError
        /\ yrResult.frame = NoFrame
        /\ ErrorEntries(yrResult.messages) = 1

\* The year has no file at all and its task has returned.
C16_Witness ==
    /\ yrOp = "done"
    /\ yrTask.files = <<>>
    /\ yrResult.frame = NoFrame
    /\ ErrorEntries(yrResult.messages) = 0

\* C17: the audit rows of a year task hold exactly one row for every source
\* file of the task, in the order of the files, whatever happened while the
\* file was read.
C17_OneAuditRowPerFile ==
    (yrOp = "done" /\ yrResult.raised = NoError) =>
        /\ Len(yrResult.audit_rows) = Len(yrTask.files)
        /\ \A k \in 1..Len(yrTask.files) :
               /\ yrResult.audit_rows[k].year = yrTask.year
               /\ yrResult.audit_rows[k].file = yrTask.files[k].name

\* A permissive task has returned and one of its files could not be read.
C17_Witness ==
    /\ yrOp = "done"
    /\ yrResult.raised = NoError
    /\ ~yrTask.options.fail_fast
    /\ Len(yrTask.files) = 2
    /\ yrTask.files[1].status = "bad_header"
    /\ Len(yrResult.audit_rows) = 1
    /\ yrResult.audit_rows[1].file = yrTask.files[2].name

\* The header or the data of file k fails to read.
FailsToRead(k) == yrTask.files[k].status \in {"bad_header", "bad_read"}

\* C18: a failure to read one source file, its header or its data, is recorded
\* as a message and the file is skipped; the year task goes on with the other
\* files and does not raise, in strict as in permissive mode.
C18_ReadFailureNeverFatal ==
    (yrOp = "done" /\ \E k \in 1..Len(yrTask.files) : FailsToRead(k)) =>
        /\ yrResult.raised = NoError
        /\ \A k \in 1..Len(yrTask.files) :
               FailsToRead(k) =>
                   \E m \in 1..Len(yrResult.messages) :
                       /\ yrResult.messages[m].kind \in {"header", "read"}
                       /\ yrResult.messages[m].file = yrTask.files[k].name

\* A strict task whose first file fails to read has raised.
C18_Witness ==
    /\ yrOp = "done"
    /\ yrTask.options.fail_fast
    /\ Len(yrTask.files) = 2
    /\ FailsToRead(1)
    /\ yrResult.raised # NoError
    /\ yrResult.raised.file = yrTask.files[1].name
    /\ yrResult.frame = NoFrame

\* Both source columns of income are in the combined frame, the mapping
\* declares no duplicate strategy for income, and transforms are enabled.
NoStrategyCase ==
    /\ yrOp = "done"
    /\ BothIncomeColumns
    /\ IncomeTransform.duplicate_strategy = None
    /\ yrTask.options.apply_transforms

\* The year's messages record the unresolved duplicate of income at the level.
RecordedAt(level) ==
    \E m \in 1..Len(yrResult.messages) :
        /\ yrResult.messages[m].level = level
        /\ yrResult.messages[m].kind = "no duplicate strategy"
        /\ yrResult.messages[m].file = "income"

\* The first column was kept and the other one counted as unresolved.
FirstColumnKept ==
    /\ yrResult.raised = NoError
    /\ yrResult.frame # NoFrame
    /\ IncomeTransform.operations = <<>> =>
           \A i \in 1..Len(yrResult.frame.rows) : IncomeColumn[i] = FamCell("ER1", i)
    /\ yrResult.audit_rows # <<>>
    /\ \A k \in 1..Len(yrResult.audit_rows) :
           /\ yrResult.audit_rows[k].duplicate_canonicals_unresolved = 1
           /\ yrResult.audit_rows[k].duplicate_canonicals_resolved = 0

\* C19: a canonical with two or more source columns in the combined frame, no
\* duplicate strategy and transforms enabled: in strict mode the task fails
\* with a fatal error; in permissive mode the first column is kept, the
\* condition is recorded in the year's messages as a warning, and the n-1
\* other columns are counted as unresolved duplicates, zero as resolved.
C19_NoStrategyTransformsOn ==
    NoStrategyCase =>
        IF yrTask.options.fail_fast
        THEN /\ yrResult.raised # NoError
             /\ yrLoop.raised = NoError => yrResult.raised.kind = "no duplicate strategy"
        ELSE FirstColumnKept /\ RecordedAt("WARNING")

\* The permissive case: the first column kept, one unresolved duplicate, and
\* the condition in the messages at level ERROR.
C19_Witness ==
    /\ NoStrategyCase
    /\ ~yrTask.options.fail_fast
    /\ FirstColumnKept
    /\ RecordedAt("ERROR")
    /\ ~RecordedAt("WARNING")

\* The tasks that have raised a fatal error.
RaisedTasks ==
    {i \in 1..Len(exTasks) : exState[i] = "done" /\ exResults[i].raised # NoError}

\* C20: if a year task raises a strict-mode fatal error, run_extract leaves
\* with that error and writes neither the panel file nor the audit log file,
\* in sequential and in parallel execution; no partial panel is written.
C20_FatalErrorWritesNothing ==
    RaisedTasks # {} =>
        /\ exOptions.fail_fast
        /\ exOp \in {"running", "raised"}
        /\ exParallel <= 1 => exOp = "raised"
        /\ exPanel = NoPanel
        /\ exAudit = <<>>
        /\ exError \in {exResults[i].raised : i \in RaisedTasks}

\* A parallel run of two years has ended with the error of the year that
\* raised, after the other year returned a frame.
C20_Witness ==
    /\ exOp = "raised"
    /\ exParallel > 1
    /\ Len(exTasks) = 2
    /\ RaisedTasks # {}
    /\ \E i \in 1..Len(exTasks) : exState[i] = "done" /\ exResults[i].frame # NoFrame
    /\ exPanel = NoPanel
    /\ exAudit = <<>>

\* The candidate rows of the last run of main, with concept and score.
Candidates == Scored(gridRows, gridHasCategory, gridPrefer)

SameGroup(a, b) == a.concept = b.concept /\ a.row.year = b.row.year

\* Row a is to be selected rather than row b of its group: a higher score;
\* at equal score the smaller module name; then the longer label; then the
\* smaller var_code.
Outranks(a, b) ==
    \/ a.score > b.score
    \/ /\ a.score = b.score
       /\ \/ StrRank(a.row.file_type) < StrRank(b.row.file_type)
          \/ /\ a.row.file_type = b.row.file_type
             /\ \/ a.label_len > b.label_len
                \/ /\ a.label_len = b.label_len
                   /\ StrRank(a.row.var_code) < StrRank(b.row.var_code)

AgeCandidate(c) == concept_base[c.row.label] \in {AgeHeadConcept, AgeSpouseConcept}

\* The part of the score of a candidate that does not depend on its module.
OtherTerms(c) ==
    (IF LabelContains(c.row.label, "acc") THEN 3 ELSE 0)
    - (IF LabelContains(c.row.label, "imp") THEN 3 ELSE 0)
    + (IF EndsWithA(c.row.var_code) THEN 2 ELSE 0)
    + (IF LabelContains(c.row.label, "value") THEN 1 ELSE 0)
    - (IF LabelContains(c.row.label, "whether") \/ LabelContains(c.row.label, "wtr")
       THEN 1 ELSE 0)
    + Min(c.label_len \div 40, 2)
    + Min(CodeFreq(WithConcept(gridRows, gridHasCategory), c.row.var_code), 2)

\* The module term of the score of a candidate.
ModuleTerm(c) == c.score - OtherTerms(c)

\* C22: every candidate row whose label resolved to the age_head or
\* age_spouse concept and whose module is FAM receives the +5 bonus, whether
\* or not the mapping has a category column.
C22_AgeFamBonus ==
    gridOp \in {"main", "shuffled"} =>
        \A c \in 1..Len(Candidates) :
            (AgeCandidate(Candidates[c]) /\ Candidates[c].row.file_type = "FAM")
                => ModuleTerm(Candidates[c]) = 5

\* The mapping has a category column; a WLTH row and a FAM row of AGE OF HEAD
\* are in one group, WLTH is preferred, and the WLTH row is selected.
C22_Witness ==
    /\ gridOp = "main"
    /\ gridHasCategory
    /\ gridPrefer = "WLTH"
    /\ Len(Candidates) = 2
    /\ AgeCandidate(Candidates[1])
    /\ Candidates[1].row.file_type = "FAM"
    /\ Candidates[2].row.file_type = "WLTH"
    /\ Candidates[1].row.var_code = Candidates[2].row.var_code
    /\ SameGroup(Candidates[1], Candidates[2])
    /\ ModuleTerm(Candidates[1]) = 0
    /\ gridPicked = <<Candidates[2]>>

\* The label of the candidate triggers the head-age override.
HeadAgeCandidate(c) == concept_base[c.row.label] = AgeHeadConcept

\* C23: all mapping rows of one year whose labels trigger the head-age
\* override belong to one (concept, year) group whatever their category, so
\* one row, with one var_code, is selected for age_head in a year.
C23_OneAgeHeadGroup ==
    gridOp \in {"main", "shuffled"} =>
        /\ \A c, d \in 1..Len(Candidates) :
               (/\ HeadAgeCandidate(Candidates[c])
                /\ HeadAgeCandidate(Candidates[d])
                /\ Candidates[c].row.year = Candidates[d].row.year)
                   => Candidates[c].concept = Candidates[d].concept
        /\ \A i, j \in 1..Len(gridPicked) :
               (/\ HeadAgeCandidate(gridPicked[i])
                /\ HeadAgeCandidate(gridPicked[j])
                /\ gridPicked[i].row.year = gridPicked[j].row.year)
                   => i = j

\* Two AGE OF HEAD rows of 1999 with different categories: two rows selected,
\* with different var_codes, under two concepts.
C23_Witness ==
    /\ gridOp = "main"
    /\ gridHasCategory
    /\ Len(gridPicked) = 2
    /\ HeadAgeCandidate(gridPicked[1])
    /\ HeadAgeCandidate(gridPicked[2])
    /\ gridPicked[1].row.year = gridPicked[2].row.year
    /\ gridPicked[1].row.category # gridPicked[2].row.category
    /\ gridPicked[1].row.var_code # gridPicked[2].row.var_code
    /\ gridPicked[1].concept # gridPicked[2].concept

\* C24: every candidate row that does not receive the +5 age/FAM bonus
\* receives +1 when its module is the preferred module and 0 for the module
\* term otherwise, rows of an age concept whose module is not FAM included.
C24_PreferredModuleTerm ==
    gridOp \in {"main", "shuffled"} =>
        \A c \in 1..Len(Candidates) :
            ModuleTerm(Candidates[c]) # 5 =>
                ModuleTerm(Candidates[c]) =
                    (IF Candidates[c].row.file_type = gridPrefer THEN 1 ELSE 0)

\* The mapping has no category column, WLTH is preferred, and a WLTH row of
\* AGE OF HEAD has the module term 0.
C24_Witness ==
    /\ gridOp = "main"
    /\ ~gridHasCategory
    /\ gridPrefer = "WLTH"
    /\ Len(Candidates) = 1
    /\ Candidates[1].concept = AgeHeadConcept
    /\ Candidates[1].row.file_type = "WLTH"
    /\ ModuleTerm(Candidates[1]) = 0

\* C25: under first_non_na every row of the resolved series is the first
\* value that is not missing, scanning the source columns left to right, and
\* is missing only when every source column is missing in that row: what
\* forward-fill, back-fill and taking the lead column give.
C25_FirstNonNaScan ==
    (YearDone /\ BothIncomeColumns /\ ~OperationsRun
       /\ IncomeTransform.duplicate_strategy = "first_non_na") =>
        \A i \in 1..Len(IncomeColumn) :
            LET a == FamCell("ER1", i)
                b == FamCell("ER2", i)
            IN /\ IncomeColumn[i] = IF a # NA THEN a ELSE b
               /\ IncomeColumn[i] = NA <=> (a = NA /\ b = NA)

\* The first source column is missing in row 1, the second in row 2, and each
\* row has the value of the other column.
C25_Witness ==
    /\ YearDone /\ BothIncomeColumns /\ ~OperationsRun
    /\ IncomeTransform.duplicate_strategy = "first_non_na"
    /\ yrTask.files[1].rows = <<[ER1 |-> NA, ER2 |-> 3], [ER1 |-> 5, ER2 |-> NA]>>
    /\ IncomeColumn = <<3, 5>>

\* The source columns of income in the order in which they were claimed from
\* the files of the year.
ClaimedIncomeColumns ==
    SelectSeq(AllColumns(yrLoop.combined_frames, 1),
              LAMBDA c : c \in ToSet(yrTask.var_codes_by_canonical["income"]))

\* Two source columns of income are in the combined frame, no duplicate
\* strategy is declared, and transforms are disabled.
KeepFirstCase ==
    /\ YearDone
    /\ Len(ClaimedIncomeColumns) >= 2
    /\ IncomeTransform.duplicate_strategy = None
    /\ ~yrTask.options.apply_transforms

KeepFirstWarnings ==
    {m \in 1..Len(yrResult.messages) :
        /\ yrResult.messages[m].level = "WARNING"
        /\ yrResult.messages[m].kind = "keeping first column"
        /\ yrResult.messages[m].file = "income"}

\* C26: two or more source columns, no strategy, transforms disabled: the
\* column kept is the first one in the order in which the columns were claimed
\* from the year's files, the others are discarded, and one WARNING is
\* recorded.
C26_KeepFirstClaimed ==
    KeepFirstCase =>
        LET combined == ConcatColumns(yrLoop.combined_frames) IN
        /\ \A i \in 1..Len(IncomeColumn) :
               IncomeColumn[i] = combined.rows[i][ClaimedIncomeColumns[1]]
        /\ Cardinality(KeepFirstWarnings) = 1

\* ER2 was claimed from the family file and ER1 from the wealth file; the
\* column kept is ER1.
C26_Witness ==
    /\ KeepFirstCase
    /\ ClaimedIncomeColumns = <<"ER2", "ER1">>
    /\ yrTask.files[1].rows = <<[ER2 |-> 3], [ER2 |-> NA]>>
    /\ IncomeColumn = <<NA, 5>>
    /\ Cardinality(KeepFirstWarnings) = 1

\* The file of the task with the name.
FileNamed(name) ==
    yrTask.files[CHOOSE k \in 1..Len(yrTask.files) : yrTask.files[k].name = name]

\* The reads of the data of the files of the finished task: a file is read
\* once, and a second time exactly when the first frame was empty; no file
\* is read a third time, and the frame of the second read is taken as it is.
ReadsBounded ==
    yrOp = "done" =>
        /\ \A m \in 1..Len(yrLoop.data_reads) :
               LET f == FileNamed(yrLoop.data_reads[m].file) IN
               /\ yrLoop.data_reads[m].n \in {1, 2}
               /\ yrLoop.data_reads[m].n = 2 <=> (f.status = "ok" /\ f.rows = <<>>)
               /\ \A k \in 1..Len(yrLoop.data_reads) :
                      yrLoop.data_reads[k].file = yrLoop.data_reads[m].file => k = m
        /\ Len(yrLoop.combined_frames)
               = Cardinality({m \in 1..Len(yrLoop.data_reads) :
                                 FileNamed(yrLoop.data_reads[m].file).status = "ok"})

NoDuplicateOperations(spec) ==
    \A i, j \in 1..Len(spec.operations) :
        OpKey(spec.operations[i]) = OpKey(spec.operations[j]) => i = j

\* C28: the operation list of every TransformSpec the system builds, by
\* parsing one transform cell or by any sequence of merges of parsed cells
\* into a canonical's spec, holds no two operations with the same
\* (name, params) pair.
C28_NoDuplicateOperations ==
    /\ NoDuplicateOperations(dslParsed)
    /\ NoDuplicateOperations(dslSpec)

\* The cell 'to_int;to_int' of a mapping row has been parsed and merged: the
\* parsed spec holds to_int twice, the canonical's spec once.
C28_Witness ==
    /\ dslOp = "row"
    /\ dslRaised = "none"
    /\ dslCell = <<"to_int", "to_int">>
    /\ Len(dslParsed.operations) = 2
    /\ dslParsed.operations[1] = dslParsed.operations[2]
    /\ Len(dslSpec.operations) = 1

\* ER1 is listed twice for income in the mapping of the year, and the family
\* file that holds it was read.
RepeatedCodeCase ==
    /\ yrOp = "done"
    /\ yrTask.var_codes_by_canonical["income"] = <<"ER1", "ER1">>

\* C29: a var_code listed more than once for one canonical in one year counts
\* as a single source column: it does not trigger duplicate resolution, is
\* not counted as a resolved or unresolved duplicate, and is never aggregated
\* with itself.
C29_RepeatedCodeIsOneColumn ==
    RepeatedCodeCase =>
        /\ yrResult.raised = NoError
        /\ yrResult.frame # NoFrame
        /\ \A k \in 1..Len(yrResult.audit_rows) :
               /\ yrResult.audit_rows[k].duplicate_canonicals_resolved = 0
               /\ yrResult.audit_rows[k].duplicate_canonicals_unresolved = 0
        /\ \A m \in 1..Len(yrResult.messages) :
               yrResult.messages[m].kind
                   \notin {"no duplicate strategy", "keeping first column"}
        /\ ~OperationsRun =>
               \A i \in 1..Len(IncomeColumn) : IncomeColumn[i] = FamCell("ER1", i)

\* Under sum_non_na the column [1, 9999, 3] of ER1 has been added to itself
\* and one duplicate counted as resolved.
C29_Witness ==
    /\ RepeatedCodeCase
    /\ YearDone
    /\ ~OperationsRun
    /\ IncomeTransform.duplicate_strategy = "sum_non_na"
    /\ Len(yrTask.files) = 1
    /\ yrTask.files[1].rows = <<[ER1 |-> 1], [ER1 |-> 9999], [ER1 |-> 3]>>
    /\ IncomeColumn = <<2, 19998, 6>>
    /\ yrResult.audit_rows[1].duplicate_canonicals_resolved = 1

\* C30: at the end of the file loop of a year task every var_code recorded as
\* claimed by a file is a column of the year's combined frame: a var_code
\* whose claiming file failed to load in permissive mode is not left claimed.
C30_ClaimedCodesAreLoaded ==
    (yrOp = "done" /\ yrLoop.raised = NoError) =>
        yrLoop.assigned_var_codes \subseteq ToSet(AllColumns(yrLoop.combined_frames, 1))

\* Permissive mode: the family file claimed ER1 and ER2 and failed to load;
\* the wealth file holds ER1 too but only S1 was loaded from it, income has
\* no value, and the audit row counts no canonical as missing.
C30_Witness ==
    /\ YearDone
    /\ ~yrTask.options.fail_fast
    /\ Len(yrTask.files) = 2
    /\ yrTask.files[1].status = "bad_read"
    /\ yrTask.files[2].cols = <<"S1", "ER1">>
    /\ yrLoop.assigned_var_codes = {"ER1", "ER2", "S1"}
    /\ AllColumns(yrLoop.combined_frames, 1) = <<"S1">>
    /\ \A i \in 1..Len(IncomeColumn) : IncomeColumn[i] = NA
    /\ Len(yrResult.audit_rows) = 1
    /\ yrResult.audit_rows[1].missing_required = 0

====
